---- MODULE Spec2Model ----
(***************************************************************************)
(* A model of deepracer_env_config: the ConfigServer (state, accessors,    *)
(* mutators, keyed dispatch), the Client (get with retries, delivery       *)
(* callback) and the configuration entities they exchange (Area, Track,   *)
(* Agent, Location with to_json / from_json / copy).                       *)
(*                                                                         *)
(* Python values are tagged records (field t).  Numbers are held in        *)
(* halves (the value 3 stands for 1.5), which keeps int() a real           *)
(* truncation.  Python objects live on a heap (a sequence of records,      *)
(* a reference is an index), so that sharing an object and copying it      *)
(* are different things.                                                   *)
(***************************************************************************)
EXTENDS Integers, Sequences, FiniteSets, Bags, TLC

VARIABLES
    heap,        \* the Python objects alive, by reference
    area,        \* ConfigServer._area (a reference)
    track,       \* ConfigServer._track (a reference)
    agent_map,   \* ConfigServer._agent_map: insertion-ordered <<[key, val]>>
    is_started,  \* ConfigServer._is_started
    observing,   \* the side channel has the server registered as an observer
    server_lock, \* who holds ConfigServer._server_lock: a context, or "free"
    life,        \* per context: where its call of start() or stop() stands
    held,        \* the entity references the calling code holds
    sent,        \* what the last operation sent on the transport
    op,          \* the operation that ran last, and how it ended
    timeout,     \* Client._timeout: "finite", or "none" for None
    max_retry_attempts,  \* Client._max_retry_attempts
    pc,          \* where the caller of Client.get_* stands
    get_key,     \* the key of the get in progress
    try_count,   \* _get's try_count
    sends,       \* the transport.send calls of the get in progress
    waits,       \* the condition.wait calls of the get in progress
    cond_owner,  \* Client._res_cond_map: per key it holds, who holds the condition's lock
    cond_made,   \* per key of _res_cond_map: who made the Condition it holds
    waiters,     \* per other context: the key whose condition it waits on in _get
    res_map,     \* Client._res_map, a dict
    result,      \* what the last get_* call returned
    net,         \* the messages in flight on the side channel, a bag of [to, key, value]
    heard,       \* history: the responses handed to the callback for the get in progress
    state_lock,  \* who holds ConfigServer._lock: a context, or "free"
    dispatch,    \* where the on_received of the server that is in progress stands
    direct,      \* where the direct call of the server that is in progress stands
    traffic,     \* history: the requests and the replies sent on the broadcast channel
    map_lock,    \* who holds Client._lock: a context, or "free"
    callback     \* where the on_received of the client that is in progress stands

-----------------------------------------------------------------------------
(* Python / JSON values *)

JNone == [t |-> "null"]
JStr(s) == [t |-> "str", s |-> s]
JNum(n) == [t |-> "num", n |-> n]
JList(items) == [t |-> "list", items |-> items]
JObj(f) == [t |-> "obj", f |-> f]
PySet(S) == [t |-> "set", e |-> S]
\* a reference to a live entity object
Ref(r) == [t |-> "ref", ref |-> r]

\* notation: F of the value v, which F's parameter names (a local variable)
With(v, F(_)) == F(v)

RECURSIVE SetToSeq(_)
SetToSeq(S) ==
    IF S = {} THEN <<>>
    ELSE LET x == CHOOSE y \in S : TRUE IN <<x>> \o SetToSeq(S \ {x})

\* bool(x)
Truthy(x) ==
    CASE x.t = "null" -> FALSE
      [] x.t = "str"  -> x.s # ""
      [] x.t = "num"  -> x.n # 0
      [] x.t = "list" -> x.items # <<>>
      [] x.t = "set"  -> x.e # {}
      [] OTHER        -> TRUE

\* the decimal strings the payloads of this model use, with their value in halves
NumeralValue == [s \in {"1", "2", "0.5"} |-> CASE s = "1" -> 2 [] s = "2" -> 4 [] OTHER -> 1]

\* float(x): [ok, v]
PyFloat(x) ==
    CASE x.t = "num" -> [ok |-> TRUE, v |-> x.n]
      [] x.t = "str" -> IF x.s \in DOMAIN NumeralValue
                        THEN [ok |-> TRUE, v |-> NumeralValue[x.s]]
                        ELSE [ok |-> FALSE, v |-> 0]
      [] OTHER       -> [ok |-> FALSE, v |-> 0]

\* truncation toward zero of a number held in halves
Trunc(n) == IF n >= 0 THEN (n \div 2) * 2 ELSE 0 - (((0 - n) \div 2) * 2)

\* int(x): [ok, v]; int("0.5") is a ValueError
PyInt(x) ==
    CASE x.t = "num" -> [ok |-> TRUE, v |-> Trunc(x.n)]
      [] x.t = "str" -> IF x.s \in DOMAIN NumeralValue /\ NumeralValue[x.s] % 2 = 0
                        THEN [ok |-> TRUE, v |-> NumeralValue[x.s]]
                        ELSE [ok |-> FALSE, v |-> 0]
      [] OTHER       -> [ok |-> FALSE, v |-> 0]

\* str(x); the names and shells of this model are always given as str
PyStr(x) == x.s

\* Enum(x) for an enumeration with the given member values: [ok, v]
EnumOf(values, x) ==
    IF x.t = "str" /\ x.s \in values THEN [ok |-> TRUE, v |-> x.s]
    ELSE [ok |-> FALSE, v |-> ""]

\* frozenset(x): [ok, v]; a list holding an unhashable element, or a number, is a TypeError
FrozenSet(x) ==
    CASE x.t = "list" -> IF \E i \in DOMAIN x.items : x.items[i].t \in {"list", "obj"}
                         THEN [ok |-> FALSE, v |-> {}]
                         ELSE [ok |-> TRUE, v |-> {x.items[i] : i \in DOMAIN x.items}]
      [] x.t = "set"  -> [ok |-> TRUE, v |-> x.e]
      [] x.t = "obj"  -> [ok |-> TRUE, v |-> {JStr(k) : k \in DOMAIN x.f}]
      [] OTHER        -> [ok |-> FALSE, v |-> {}]

GameOverConditionType == {"any", "all"}
SensorConfigType == {"front_facing_camera", "stereo_cameras", "front_facing_camera_and_lidar",
                     "stereo_cameras_and_lidar", "lidar"}
ActionType == {"get", "apply", "spawn", "delete"}
TargetType == {"area", "agent", "agents", "track"}
TrackDirection == {"cw", "ccw"}
TrackLine == {"track_center_line", "inner_lane_center_line", "outer_lane_center_line"}
DEFAULT_AGENT_NAME == "agent0"
DEFAULT_SHELL == "deepracer_black"
DEFAULT_TRACK == "spain"

-----------------------------------------------------------------------------
(* The heap.  An operation that builds an object returns [ok, h, ref]:     *)
(* ok = FALSE when it raised (h is then the heap it was given).            *)

Built(h, obj) == [ok |-> TRUE, h |-> Append(h, obj), ref |-> Len(h) + 1]
Raised(h) == [ok |-> FALSE, h |-> h, ref |-> 0]

\* dict subscription json_obj[k] succeeds
HasKeys(j, ks) == j.t = "obj" /\ ks \subseteq DOMAIN j.f

\* json.dumps(doc): a str holding JSON text
Dumps(doc) == [t |-> "text", doc |-> doc]

IsStr(x) == x.t \in {"str", "text"}

\* json.loads(x): [ok, v]; a str that is not JSON text is a JSONDecodeError
Loads(x) ==
    CASE x.t = "text" -> [ok |-> TRUE, v |-> x.doc]
      [] x.t = "str" /\ x.s \in DOMAIN NumeralValue -> [ok |-> TRUE, v |-> JNum(NumeralValue[x.s])]
      [] OTHER -> [ok |-> FALSE, v |-> JNone]

\* if isinstance(json_obj, str): json_obj = json.loads(json_obj)
LoadIfStr(x) == IF IsStr(x) THEN Loads(x) ELSE [ok |-> TRUE, v |-> x]

-----------------------------------------------------------------------------
(* Location *)

Location_init(h, normalized_distance, track_line) ==
    With([nd |-> PyFloat(normalized_distance), tl |-> EnumOf(TrackLine, track_line)],
         LAMBDA p :
            IF p.nd.ok /\ p.tl.ok
            THEN Built(h, [cls |-> "Location", normalized_distance |-> p.nd.v,
                           track_line |-> p.tl.v])
            ELSE Raised(h))

Location_default(h) == Location_init(h, JNum(0), JStr("track_center_line"))

Location_to_json(h, ref) ==
    JObj([k \in {"normalized_distance", "track_line"} |->
            IF k = "normalized_distance" THEN JNum(h[ref].normalized_distance)
            ELSE JStr(h[ref].track_line)])

Location_from_json(h, json_obj) ==
    With(LoadIfStr(json_obj), LAMBDA d :
        IF d.ok /\ HasKeys(d.v, {"normalized_distance", "track_line"})
        THEN Location_init(h, d.v.f["normalized_distance"], d.v.f["track_line"])
        ELSE Raised(h))

Location_copy(h, ref) ==
    Location_init(h, JNum(h[ref].normalized_distance), JStr(h[ref].track_line))

-----------------------------------------------------------------------------
(* Agent (a Behaviour with sensor, counts and penalties) *)

AgentKeys == {"name", "shell", "start_location", "sensor_config_type",
              "life_count", "lap_count", "offtrack_penalty", "crash_penalty"}

\* start_location is a reference, or 0 for None
Agent_init(h, name, shell, sensor_config_type, start_location, life_count, lap_count, offtrack_penalty, crash_penalty) ==
    With([loc |-> IF start_location = 0 THEN Location_default(h)
                  ELSE [ok |-> TRUE, h |-> h, ref |-> start_location],
          sct |-> EnumOf(SensorConfigType, sensor_config_type),
          life |-> PyInt(life_count),
          lap |-> PyInt(lap_count),
          off |-> PyFloat(offtrack_penalty),
          crash |-> PyFloat(crash_penalty)],
         LAMBDA p :
            IF /\ p.sct.ok /\ p.life.ok
               /\ p.lap.ok /\ p.lap.v >= 2
               /\ p.off.ok /\ p.off.v >= 0
               /\ p.crash.ok /\ p.crash.v >= 0
            THEN Built(p.loc.h, [cls |-> "Agent",
                                 name |-> PyStr(name),
                                 shell |-> PyStr(shell),
                                 start_location |-> p.loc.ref,
                                 sensor_config_type |-> p.sct.v,
                                 life_count |-> p.life.v,
                                 lap_count |-> p.lap.v,
                                 offtrack_penalty |-> p.off.v,
                                 crash_penalty |-> p.crash.v])
            ELSE Raised(h))

Agent_default(h) ==
    Agent_init(h, JStr(DEFAULT_AGENT_NAME), JStr(DEFAULT_SHELL), JStr("front_facing_camera"), 0,
               JNum(0), JNum(2), JNum(0), JNum(0))

Agent_to_json(h, ref) ==
    LET a == h[ref]
    IN  JObj([k \in AgentKeys |->
            CASE k = "name" -> JStr(a.name)
              [] k = "shell" -> JStr(a.shell)
              [] k = "start_location" -> Location_to_json(h, a.start_location)
              [] k = "sensor_config_type" -> JStr(a.sensor_config_type)
              [] k = "life_count" -> JNum(a.life_count)
              [] k = "lap_count" -> JNum(a.lap_count)
              [] k = "offtrack_penalty" -> JNum(a.offtrack_penalty)
              [] OTHER -> JNum(a.crash_penalty)])

Agent_from_json(h, json_obj) ==
    With(LoadIfStr(json_obj), LAMBDA d :
        IF ~(d.ok /\ HasKeys(d.v, AgentKeys))
        THEN Raised(h)
        ELSE With(Location_from_json(h, d.v.f["start_location"]), LAMBDA loc :
                IF ~loc.ok THEN Raised(h)
                ELSE With(Agent_init(loc.h, d.v.f["name"], d.v.f["shell"],
                                     d.v.f["sensor_config_type"], loc.ref, d.v.f["life_count"],
                                     d.v.f["lap_count"], d.v.f["offtrack_penalty"],
                                     d.v.f["crash_penalty"]),
                          LAMBDA a : IF a.ok THEN a ELSE Raised(h))))

\* variant: a copy that shares the start location of the original
Agent_copy_shallow(h, ref) ==
    LET a == h[ref]
    IN  Agent_init(h, JStr(a.name), JStr(a.shell), JStr(a.sensor_config_type), a.start_location,
                   JNum(a.life_count), JNum(a.lap_count),
                   JNum(a.offtrack_penalty), JNum(a.crash_penalty))

Agent_copy(h, ref) ==
    With(Location_copy(h, h[ref].start_location), LAMBDA loc :
        IF ~loc.ok THEN Raised(h)
        ELSE With(Agent_init(loc.h, JStr(h[ref].name), JStr(h[ref].shell),
                             JStr(h[ref].sensor_config_type), loc.ref,
                             JNum(h[ref].life_count), JNum(h[ref].lap_count),
                             JNum(h[ref].offtrack_penalty), JNum(h[ref].crash_penalty)),
                  LAMBDA c : IF c.ok THEN c ELSE Raised(h)))

-----------------------------------------------------------------------------
(* Area *)

AreaKeys == {"game_over_condition", "track_names", "shell_names"}

Area_init(h, game_over_condition, track_names, shell_names) ==
    With([goc |-> EnumOf(GameOverConditionType, game_over_condition),
          tn |-> IF Truthy(track_names) THEN FrozenSet(track_names) ELSE [ok |-> TRUE, v |-> {}],
          sn |-> IF Truthy(shell_names) THEN FrozenSet(shell_names) ELSE [ok |-> TRUE, v |-> {}]],
         LAMBDA p :
            IF p.goc.ok /\ p.tn.ok /\ p.sn.ok
            THEN Built(h, [cls |-> "Area", game_over_condition |-> p.goc.v,
                           track_names |-> p.tn.v, shell_names |-> p.sn.v])
            ELSE Raised(h))

Area_default(h) == Area_init(h, JStr("any"), JNone, JNone)

Area_to_json(h, ref) ==
    JObj([k \in AreaKeys |->
            CASE k = "game_over_condition" -> JStr(h[ref].game_over_condition)
              [] k = "track_names" -> JList(SetToSeq(h[ref].track_names))
              [] OTHER -> JList(SetToSeq(h[ref].shell_names))])

Area_from_json(h, json_obj) ==
    With(LoadIfStr(json_obj), LAMBDA d :
        IF d.ok /\ HasKeys(d.v, AreaKeys)
        THEN Area_init(h, d.v.f["game_over_condition"], d.v.f["track_names"], d.v.f["shell_names"])
        ELSE Raised(h))

Area_copy(h, ref) ==
    Area_init(h, JStr(h[ref].game_over_condition), PySet(h[ref].track_names),
              PySet(h[ref].shell_names))

-----------------------------------------------------------------------------
(* Track *)

TrackKeys == {"name", "finish_line", "direction"}

Track_init(h, name, finish_line, direction) ==
    With([fl |-> PyFloat(finish_line), dir |-> EnumOf(TrackDirection, direction)],
         LAMBDA p :
            IF p.fl.ok /\ p.dir.ok
            THEN Built(h, [cls |-> "Track", name |-> PyStr(name), finish_line |-> p.fl.v,
                           direction |-> p.dir.v])
            ELSE Raised(h))

Track_default(h) == Track_init(h, JStr(DEFAULT_TRACK), JNum(0), JStr("ccw"))

Track_to_json(h, ref) ==
    JObj([k \in TrackKeys |->
            CASE k = "name" -> JStr(h[ref].name)
              [] k = "finish_line" -> JNum(h[ref].finish_line)
              [] OTHER -> JStr(h[ref].direction)])

Track_from_json(h, json_obj) ==
    With(LoadIfStr(json_obj), LAMBDA d :
        IF d.ok /\ HasKeys(d.v, TrackKeys)
        THEN Track_init(h, d.v.f["name"], d.v.f["finish_line"], d.v.f["direction"])
        ELSE Raised(h))

Track_copy(h, ref) ==
    Track_init(h, JStr(h[ref].name), JNum(h[ref].finish_line), JStr(h[ref].direction))

\* config.to_json() by the class of the object
to_json(h, ref) ==
    CASE h[ref].cls = "Area" -> Area_to_json(h, ref)
      [] h[ref].cls = "Track" -> Track_to_json(h, ref)
      [] h[ref].cls = "Agent" -> Agent_to_json(h, ref)
      [] OTHER -> Location_to_json(h, ref)

\* the value of an object, nested objects included: what __eq__ compares
Value(h, ref) ==
    IF h[ref].cls = "Agent"
    THEN [h[ref] EXCEPT !.start_location = h[h[ref].start_location]]
    ELSE h[ref]

-----------------------------------------------------------------------------
(* A Python dict that keeps insertion order: a sequence of [key, val]      *)

DictKeys(d) == {d[i].key : i \in DOMAIN d}
DictHas(d, k) == k \in DictKeys(d)
DictIndex(d, k) == CHOOSE i \in DOMAIN d : d[i].key = k
DictGet(d, k) == d[DictIndex(d, k)].val
\* variant: an assignment that always adds an entry
DictSet_append(d, k, v) == Append(d, [key |-> k, val |-> v])

\* d[k] = v
DictSet(d, k, v) ==
    IF DictHas(d, k) THEN [d EXCEPT ![DictIndex(d, k)].val = v]
    ELSE Append(d, [key |-> k, val |-> v])
\* variant: a pop that removes the last entry (popitem) when the key is there
DictPop_last(d, k) == IF DictHas(d, k) THEN SubSeq(d, 1, Len(d) - 1) ELSE d

\* d.pop(k, None)
DictPop(d, k) ==
    IF DictHas(d, k)
    THEN LET i == DictIndex(d, k) IN SubSeq(d, 1, i - 1) \o SubSeq(d, i + 1, Len(d))
    ELSE d
DictValues(d) == [i \in DOMAIN d |-> d[i].val]

-----------------------------------------------------------------------------
(* ConfigServer.  S is the server: [h, area, track, agent_map, is_started, *)
(* observing]; observing tells whether the side channel has the server     *)
(* registered as an observer.  A handler returns [ok, S, ret].             *)

KEY_PREFIX == "deepracer_config"

IsInstance(h, x, cls) == x.t = "ref" /\ h[x.ref].cls = cls

Returned(S, ret) == [ok |-> TRUE, S |-> S, ret |-> ret]
Threw(S) == [ok |-> FALSE, S |-> S, ret |-> JNone]

start(S) ==
    IF ~S.is_started THEN [S EXCEPT !.observing = TRUE, !.is_started = TRUE] ELSE S

stop(S) ==
    IF S.is_started THEN [S EXCEPT !.observing = FALSE, !.is_started = FALSE] ELSE S

\* {agent.name: agent for agent in agents}
RECURSIVE AgentDict(_, _, _)
AgentDict(h, refs, d) ==
    IF refs = <<>> THEN d
    ELSE AgentDict(h, Tail(refs), DictSet(d, h[Head(refs).ref].name, Head(refs).ref))

\* ConfigServer(side_channel, area, track, agents): each argument a value or JNone
ConfigServer_init(h, area_arg, track_arg, agents_arg) ==
    With(IF Truthy(area_arg) THEN [ok |-> TRUE, h |-> h, ref |-> area_arg.ref]
         ELSE Area_default(h), LAMBDA a :
    With(IF Truthy(track_arg) THEN [ok |-> TRUE, h |-> a.h, ref |-> track_arg.ref]
         ELSE Track_default(a.h), LAMBDA t :
    With(IF Truthy(agents_arg) THEN [h |-> t.h, refs |-> agents_arg.items]
         ELSE With(Agent_default(t.h), LAMBDA n : [h |-> n.h, refs |-> <<Ref(n.ref)>>]),
         LAMBDA g :
            start([h |-> g.h, area |-> a.ref, track |-> t.ref,
                   agent_map |-> AgentDict(g.h, g.refs, <<>>),
                   is_started |-> FALSE, observing |-> FALSE]))))

\* what an accessor returns with the copy c it made
ReturnedCopy(S, c) == IF c.ok THEN Returned([S EXCEPT !.h = c.h], Ref(c.ref)) ELSE Threw(S)

get_area(S, value) == ReturnedCopy(S, Area_copy(S.h, S.area))

\* [agent.copy() for agent in agents]: [ok, h, refs]
RECURSIVE CopyAll(_, _)
CopyAll(h, refs) ==
    IF refs = <<>> THEN [ok |-> TRUE, h |-> h, refs |-> <<>>]
    ELSE With(Agent_copy(h, Head(refs)), LAMBDA c :
         With(CopyAll(c.h, Tail(refs)), LAMBDA rest :
            IF c.ok /\ rest.ok
            THEN [ok |-> TRUE, h |-> rest.h, refs |-> <<Ref(c.ref)>> \o rest.refs]
            ELSE [ok |-> FALSE, h |-> h, refs |-> <<>>]))

get_agents(S, value) ==
    With(CopyAll(S.h, DictValues(S.agent_map)), LAMBDA c :
        IF c.ok THEN Returned([S EXCEPT !.h = c.h], JList(c.refs)) ELSE Threw(S))

\* self._agent_map.get(name): an unhashable name is a TypeError
\* variant: a lookup by subscript, which fails for a name the registry does not hold
get_agent_strict(S, name) ==
    IF name.t = "str" /\ DictHas(S.agent_map, name.s)
    THEN ReturnedCopy(S, Agent_copy(S.h, DictGet(S.agent_map, name.s)))
    ELSE Threw(S)

get_agent(S, name) ==
    IF name.t \in {"list", "obj", "ref"} THEN Threw(S)
    ELSE IF name.t = "str" /\ DictHas(S.agent_map, name.s)
    THEN ReturnedCopy(S, Agent_copy(S.h, DictGet(S.agent_map, name.s)))
    ELSE Returned(S, JNone)

get_track(S, value) == ReturnedCopy(S, Track_copy(S.h, S.track))

\* x if isinstance(x, cls) else cls.from_json(x): [ok, h, ref]
EntityOf(h, x, cls) ==
    IF IsInstance(h, x, cls) THEN [ok |-> TRUE, h |-> h, ref |-> x.ref]
    ELSE CASE cls = "Area" -> Area_from_json(h, x)
           [] cls = "Track" -> Track_from_json(h, x)
           [] OTHER -> Agent_from_json(h, x)

apply_area(S, x) ==
    With(EntityOf(S.h, x, "Area"), LAMBDA e :
        IF e.ok THEN Returned([S EXCEPT !.h = e.h, !.area = e.ref], JNone) ELSE Threw(S))

\* variant: an apply_agent without the membership test
apply_agent_insert(S, x) ==
    With(EntityOf(S.h, x, "Agent"), LAMBDA e :
        IF e.ok
        THEN Returned([S EXCEPT !.h = e.h,
                                !.agent_map = DictSet(@, e.h[e.ref].name, e.ref)], JNone)
        ELSE Threw(S))

apply_agent(S, x) ==
    With(EntityOf(S.h, x, "Agent"), LAMBDA e :
        IF ~e.ok THEN Threw(S)
        ELSE IF DictHas(S.agent_map, e.h[e.ref].name)
        THEN Returned([S EXCEPT !.h = e.h,
                                !.agent_map = DictSet(@, e.h[e.ref].name, e.ref)], JNone)
        ELSE Returned(S, JNone))

apply_track(S, x) ==
    With(EntityOf(S.h, x, "Track"), LAMBDA e :
        IF e.ok THEN Returned([S EXCEPT !.h = e.h, !.track = e.ref], JNone) ELSE Threw(S))

spawn_agent(S, x) ==
    With(EntityOf(S.h, x, "Agent"), LAMBDA e :
        IF e.ok
        THEN Returned([S EXCEPT !.h = e.h,
                                !.agent_map = DictSet(@, e.h[e.ref].name, e.ref)], JNone)
        ELSE Threw(S))

\* the body of delete_agent's if: agent = ...; self._agent_map.pop(agent.name, None)
delete_agent_pop(S, x) ==
    With(EntityOf(S.h, x, "Agent"), LAMBDA e :
        IF e.ok
        THEN Returned([S EXCEPT !.agent_map = DictPop(@, e.h[e.ref].name)], JNone)
        ELSE Threw(S))

\* variant: a delete_agent without the test on the size of the registry
delete_agent_unguarded(S, x) ==
    With(EntityOf(S.h, x, "Agent"), LAMBDA e :
        IF e.ok
        THEN Returned([S EXCEPT !.agent_map = DictPop(@, e.h[e.ref].name)], JNone)
        ELSE Threw(S))

delete_agent(S, x) ==
    IF Len(S.agent_map) > 1
    THEN With(EntityOf(S.h, x, "Agent"), LAMBDA e :
            IF e.ok
            THEN Returned([S EXCEPT !.agent_map = DictPop(@, e.h[e.ref].name)], JNone)
            ELSE Threw(S))
    ELSE Returned(S, JNone)

\* the methods of ConfigServer that getattr(self, "{action}_{target}") finds
Handlers == {<<"get", "area">>, <<"get", "agents">>, <<"get", "agent">>, <<"get", "track">>,
             <<"apply", "area">>, <<"apply", "agent">>, <<"apply", "track">>,
             <<"spawn", "agent">>, <<"delete", "agent">>}

Invoke(S, action, target, value) ==
    CASE <<action, target>> = <<"get", "area">> -> get_area(S, value)
      [] <<action, target>> = <<"get", "agents">> -> get_agents(S, value)
      [] <<action, target>> = <<"get", "agent">> -> get_agent(S, value)
      [] <<action, target>> = <<"get", "track">> -> get_track(S, value)
      [] <<action, target>> = <<"apply", "area">> -> apply_area(S, value)
      [] <<action, target>> = <<"apply", "agent">> -> apply_agent(S, value)
      [] <<action, target>> = <<"apply", "track">> -> apply_track(S, value)
      [] <<action, target>> = <<"spawn", "agent">> -> spawn_agent(S, value)
      [] OTHER -> delete_agent(S, value)

(* A key is held as the parts key.split("::") returns; the first parts     *)
(* below are the ones of this model that start with KEY_PREFIX.            *)
PrefixedParts == {"deepracer_config", "deepracer_config_v2"}

\* variant: a test that lets every key through
StartsWithPrefix_any(key) == key[1] = key[1]

\* key.startswith(KEY_PREFIX), on the parts of the key
StartsWithPrefix(key) == key[1] \in PrefixedParts

\* variant: a reply that lists the entities last to first
ReplyOf_reversed(h, config) ==
    IF config.t = "ref" THEN <<Dumps(to_json(h, config.ref))>>
    ELSE IF config.t = "list"
    THEN <<Dumps(JList([i \in DOMAIN config.items |->
                          to_json(h, config.items[Len(config.items) + 1 - i].ref)]))>>
    ELSE <<>>

\* json.dumps of what a get handler returned: an entity, or a list of entities
ReplyOf(h, config) ==
    IF config.t = "ref" THEN <<Dumps(to_json(h, config.ref))>>
    ELSE IF config.t = "list"
    THEN <<Dumps(JList([i \in DOMAIN config.items |-> to_json(h, config.items[i].ref)]))>>
    ELSE <<>>

\* variant: a parse that takes the first three parts of a longer key
ParseKey_lenient(key) ==
    IF Len(key) < 3 THEN [ok |-> FALSE, why |-> "invalid key"]
    ELSE IF key[1] # KEY_PREFIX THEN [ok |-> FALSE, why |-> "invalid prefix"]
    ELSE IF key[2] \notin ActionType \/ key[3] \notin TargetType
    THEN [ok |-> FALSE, why |-> "invalid key"]
    ELSE [ok |-> TRUE, why |-> ""]

\* prefix, action, target = key.split("::") and the checks on them: [ok, why]
ParseKey(key) ==
    IF Len(key) # 3 THEN [ok |-> FALSE, why |-> "invalid key"]
    ELSE IF key[1] # KEY_PREFIX THEN [ok |-> FALSE, why |-> "invalid prefix"]
    ELSE IF key[2] \notin ActionType \/ key[3] \notin TargetType
    THEN [ok |-> FALSE, why |-> "invalid key"]
    ELSE [ok |-> TRUE, why |-> ""]

\* variant: a dispatch that acknowledges the actions that are not a get
Replies_ack(h, key, config) ==
    IF key[2] = "get"
    THEN With(ReplyOf(h, config), LAMBDA out :
            [i \in DOMAIN out |-> [key |-> key, value |-> out[i]]])
    ELSE <<[key |-> key, value |-> Dumps(JNone)]>>

\* what on_received sends once the handler has returned config
Replies(h, key, config) ==
    IF key[2] = "get"
    THEN With(ReplyOf(h, config), LAMBDA out :
            [i \in DOMAIN out |-> [key |-> key, value |-> out[i]]])
    ELSE <<>>

\* ConfigServer.on_received: [S, sent, end, ret]; end = "raised" when an exception escapes
on_received(S, key, value) ==
    LET Done(S1, out, how, ret) == [S |-> S1, sent |-> out, end |-> how, ret |-> ret]
    IN  IF ~StartsWithPrefix(key) THEN Done(S, <<>>, "ignored", JNone)
        ELSE IF ~ParseKey(key).ok THEN Done(S, <<>>, ParseKey(key).why, JNone)
        ELSE IF <<key[2], key[3]>> \notin Handlers THEN Done(S, <<>>, "raised", JNone)
        ELSE With(Invoke(S, key[2], key[3], value), LAMBDA r :
                IF ~r.ok THEN Done(r.S, <<>>, "method threw", JNone)
                ELSE Done(r.S, Replies(r.S.h, key, r.ret), "handled", r.ret))

-----------------------------------------------------------------------------
(* The inputs of the model: the entities callers build and the payloads    *)
(* that arrive.  A "tuned" entity differs from the default one in every    *)
(* field but the name.                                                     *)

AgentNames == {DEFAULT_AGENT_NAME, "bot1"}
Kinds == {"plain", "tuned"}

NewAgent(h, name, kind) ==
    IF kind = "plain"
    THEN Agent_init(h, JStr(name), JStr(DEFAULT_SHELL), JStr("front_facing_camera"), 0,
                    JNum(0), JNum(2), JNum(0), JNum(0))
    ELSE With(Location_init(h, JNum(1), JStr("inner_lane_center_line")), LAMBDA loc :
            Agent_init(loc.h, JStr(name), JStr("test_shell"), JStr("stereo_cameras_and_lidar"),
                       loc.ref, JNum(10), JNum(6), JNum(5), JNum(11)))

NewArea(h, kind) ==
    IF kind = "plain" THEN Area_default(h)
    ELSE Area_init(h, JStr("all"), JList(<<JStr("track1"), JStr("track2")>>),
                   JList(<<JStr("shell1")>>))

NewTrack(h, kind) ==
    IF kind = "plain" THEN Track_default(h)
    ELSE Track_init(h, JStr("test_track"), JNum(1), JStr("cw"))

AgentDoc(name, kind) == With(NewAgent(<<>>, name, kind), LAMBDA b : Agent_to_json(b.h, b.ref))
AreaDoc(kind) == With(NewArea(<<>>, kind), LAMBDA b : Area_to_json(b.h, b.ref))
TrackDoc(kind) == With(NewTrack(<<>>, kind), LAMBDA b : Track_to_json(b.h, b.ref))

\* an encoded agent whose life_count 5.5 the constructor truncates to 5
CoercedAgentDoc == JObj([AgentDoc("bot1", "tuned").f EXCEPT !["life_count"] = JNum(11)])
\* an encoded agent the constructor rejects: lap_count 0
RejectedAgentDoc == JObj([AgentDoc(DEFAULT_AGENT_NAME, "tuned").f EXCEPT !["lap_count"] = JNum(0)])

AgentDocs == {AgentDoc(n, k) : n \in AgentNames, k \in Kinds}
AgentPayloads == AgentDocs \cup {CoercedAgentDoc, RejectedAgentDoc, TrackDoc("tuned")}
AreaPayloads == {AreaDoc(k) : k \in Kinds} \cup {TrackDoc("tuned")}
TrackPayloads == {TrackDoc(k) : k \in Kinds} \cup {AreaDoc("tuned")}

\* a live entity the caller builds for the call: [t |-> "new", cls, name, kind]
Fresh(cls, name, kind) == [t |-> "new", cls |-> cls, name |-> name, kind |-> kind]
\* the entity the caller holds at position i
Held(i) == [t |-> "held", i |-> i]

\* the argument as the Python value the call receives: [h, arg]
Materialize(h, hs, x) ==
    CASE x.t = "new" ->
            With(CASE x.cls = "Area" -> NewArea(h, x.kind)
                   [] x.cls = "Track" -> NewTrack(h, x.kind)
                   [] OTHER -> NewAgent(h, x.name, x.kind),
                 LAMBDA b : [h |-> b.h, arg |-> Ref(b.ref)])
      [] x.t = "held" -> [h |-> h, arg |-> Ref(hs[x.i].ref)]
      [] OTHER -> [h |-> h, arg |-> x]

-----------------------------------------------------------------------------
(* Garbage collection: the objects reachable from the server and from the  *)
(* caller are renumbered in the order they are met, the others are         *)
(* dropped.                                                                *)

RECURSIVE Closure(_, _)
Closure(h, refs) ==
    IF refs = <<>> THEN <<>>
    ELSE (IF h[Head(refs)].cls = "Agent" THEN <<Head(refs), h[Head(refs)].start_location>>
          ELSE <<Head(refs)>>) \o Closure(h, Tail(refs))

RECURSIVE Dedup(_, _)
Dedup(seq, seen) ==
    IF seq = <<>> THEN <<>>
    ELSE IF Head(seq) \in seen THEN Dedup(Tail(seq), seen)
    ELSE <<Head(seq)>> \o Dedup(Tail(seq), seen \cup {Head(seq)})

Compact(S, hs) ==
    With(Dedup(Closure(S.h, <<S.area, S.track>> \o DictValues(S.agent_map)
                                \o [i \in DOMAIN hs |-> hs[i].ref]), {}), LAMBDA order :
    LET New(r) == CHOOSE i \in DOMAIN order : order[i] = r
    IN  [S |-> [S EXCEPT
                  !.h = [i \in DOMAIN order |->
                            IF S.h[order[i]].cls = "Agent"
                            THEN [S.h[order[i]] EXCEPT !.start_location = New(@)]
                            ELSE S.h[order[i]]],
                  !.area = New(S.area),
                  !.track = New(S.track),
                  !.agent_map = [i \in DOMAIN S.agent_map |->
                                    [key |-> S.agent_map[i].key, val |-> New(S.agent_map[i].val)]]],
         held |-> [i \in DOMAIN hs |-> [ref |-> New(hs[i].ref), origin |-> hs[i].origin]]])

-----------------------------------------------------------------------------
(* The server as a state machine: each call runs to completion.            *)

MaxHeld == 1

Server == [h |-> heap, area |-> area, track |-> track, agent_map |-> agent_map,
           is_started |-> is_started, observing |-> observing]

svars == <<heap, area, track, agent_map, is_started, observing>>
lvars == <<server_lock, life>>
xvars == <<heard, state_lock, dispatch, direct, traffic, map_lock, callback>>
cvars == <<timeout, max_retry_attempts, pc, get_key, try_count, sends, waits, cond_owner, cond_made,
           waiters, res_map, result, net>>
vars == <<heap, area, track, agent_map, is_started, observing, server_lock, life, held, sent, op,
          timeout, max_retry_attempts, pc, get_key, try_count, sends, waits, cond_owner, cond_made,
          waiters, res_map, result, net,
          heard, state_lock, dispatch, direct, traffic, map_lock, callback>>

\* the class a target's mutators take
ClassOf(target) == CASE target = "area" -> "Area" [] target = "track" -> "Track" [] OTHER -> "Agent"

AsValue(h, x) ==
    CASE x.t = "ref" -> [t |-> "val", v |-> Value(h, x.ref)]
      [] x.t = "list" -> JList([i \in DOMAIN x.items |-> [t |-> "val", v |-> Value(h, x.items[i].ref)]])
      [] OTHER -> x

\* what a call was given, for the record: the entity as a value, a name, or None
GivenOf(h, action, target, arg) ==
    IF action = "get" THEN (IF target = "agent" /\ arg.t = "str" THEN arg ELSE JNone)
    ELSE IF target \notin {"area", "track", "agent"} THEN JNone
    ELSE With(EntityOf(h, arg, ClassOf(target)), LAMBDA e :
            IF e.ok THEN AsValue(e.h, Ref(e.ref)) ELSE JNone)

\* the registry entry with the name of the given agent, as it is before the call
PriorOf(given) ==
    IF given.t = "val" /\ given.v.cls = "Agent" /\ DictHas(agent_map, given.v.name)
    THEN AsValue(heap, Ref(DictGet(agent_map, given.v.name)))
    ELSE JNone

\* the record of a call: size is the registry's size before it
Record(name, key, given, end, ret) ==
    [name |-> name, key |-> key, given |-> given, end |-> end, ret |-> ret,
     size |-> Len(agent_map), prior |-> PriorOf(given)]

\* the server is left as S, the caller holds hs, out was sent, rec is the call's record
Store(S, hs, out, rec) ==
    \E c \in {Compact(S, hs)} :
        /\ heap' = c.S.h
        /\ area' = c.S.area
        /\ track' = c.S.track
        /\ agent_map' = c.S.agent_map
        /\ is_started' = c.S.is_started
        /\ observing' = c.S.observing
        /\ held' = c.held
        /\ sent' = out
        /\ op' = rec

Commit(S, hs, out, rec) == Store(S, hs, out, rec) /\ UNCHANGED <<lvars, xvars>>

\* the references a call returned, in order
RefsOf(ret) ==
    CASE ret.t = "ref" -> <<ret.ref>>
      [] ret.t = "list" -> [i \in DOMAIN ret.items |-> ret.items[i].ref]
      [] OTHER -> <<>>

\* no call is in progress
NoCall == [at |-> "idle", key |-> <<>>, value |-> JNone, out |-> <<>>]

(* nothing was handed to the callback for the get in progress.  n: the     *)
(* responses on its key since its first send (2 stands for two or more),   *)
(* first and last: the first and the last of them, att: the attempt whose  *)
(* request the last one answers, early: one of them came after a send and  *)
(* before the wait that followed, stale: what the response map held for    *)
(* the key when the get began                                              *)
NotHeard == [n |-> 0, first |-> JNone, last |-> JNone, att |-> 0, early |-> FALSE,
             stale |-> JNone]

\* the contexts (threads) that call start() and stop()
Contexts == {"c1", "c2"}

\* a context that is in neither start() nor stop()
Idle == [m |-> "none", at |-> "idle"]

(* A direct call server.{action}_{target}(x).  keep: the caller keeps hold *)
(* of the entity it passed and of the pick-th entity it was returned.      *)
DirectCall(action, target, x, keep, pick) ==
    /\ x.t = "held" => x.i \in DOMAIN held
    /\ UNCHANGED cvars
    /\ \E m \in {Materialize(heap, held, x)} :
       \E r \in {Invoke([Server EXCEPT !.h = m.h], action, target, m.arg)} :
       \E got \in {RefsOf(r.ret)} :
       \E hs1 \in {IF x.t = "held" THEN [held EXCEPT ![x.i].origin = "given"] ELSE held} :
       \E hs2 \in {IF keep /\ x.t = "new"
                    THEN Append(hs1, [ref |-> m.arg.ref, origin |-> "given"]) ELSE hs1} :
          /\ pick = 1 \/ (keep /\ r.ok /\ pick \in DOMAIN got)
          /\ Len(hs2) + (IF keep /\ r.ok /\ got # <<>> THEN 1 ELSE 0) <= MaxHeld
          /\ Commit(r.S,
                    IF keep /\ r.ok /\ got # <<>>
                    THEN Append(hs2, [ref |-> got[pick], origin |-> "returned"]) ELSE hs2,
                    <<>>,
                    Record(action \o "_" \o target, <<>>, GivenOf(m.h, action, target, m.arg),
                           IF r.ok THEN "returned" ELSE "raised", AsValue(r.S.h, r.ret)))

CallGetArea(keep) == DirectCall("get", "area", JNone, keep, 1)
CallGetTrack(keep) == DirectCall("get", "track", JNone, keep, 1)
CallGetAgents(keep, pick) == DirectCall("get", "agents", JNone, keep, pick)
CallGetAgent(name, keep) == DirectCall("get", "agent", JStr(name), keep, 1)
CallApplyArea(x, keep) == DirectCall("apply", "area", x, keep, 1)
CallApplyTrack(x, keep) == DirectCall("apply", "track", x, keep, 1)
CallApplyAgent(x, keep) == DirectCall("apply", "agent", x, keep, 1)
CallSpawnAgent(x, keep) == DirectCall("spawn", "agent", x, keep, 1)
CallDeleteAgent(x, keep) == DirectCall("delete", "agent", x, keep, 1)

\* server.on_received(side_channel, key, value), as the transport or a test calls it
Receive(key, value) ==
    /\ UNCHANGED cvars
    /\ \E r \in {on_received(Server, key, value)} :
          Commit(r.S, held, r.sent,
                 Record("on_received", key,
                        IF Len(key) = 3 THEN GivenOf(heap, key[2], key[3], value) ELSE JNone,
                        r.end, AsValue(r.S.h, r.ret)))

(* the keys and payloads that arrive *)
WellFormedKeys == {<<KEY_PREFIX, a, t>> : a \in ActionType, t \in TargetType}
MalformedKeys == {<<KEY_PREFIX>>, <<KEY_PREFIX, "get">>, <<KEY_PREFIX, "get", "area", "now">>,
                  <<"deepracer_config_v2", "get", "area">>, <<KEY_PREFIX, "fetch", "area">>,
                  <<KEY_PREFIX, "get", "lane">>, <<KEY_PREFIX, "", "get">>}
ForeignKeys == {<<"other_topic", "get", "area">>, <<"other_topic">>}

PayloadsFor(key) ==
    IF key \notin WellFormedKeys \/ <<key[2], key[3]>> \notin Handlers
    THEN {JStr(""), Dumps(AreaDoc("tuned"))}
    ELSE IF key[2] = "get" THEN {JStr(""), JStr(DEFAULT_AGENT_NAME)}
    ELSE {JStr("")} \cup
         {Dumps(d) : d \in CASE key[3] = "area" -> AreaPayloads
                             [] key[3] = "track" -> TrackPayloads
                             [] OTHER -> AgentPayloads}

(* the arguments of direct calls: an encoded form (a dict) or a live entity *)
AreaArgs == AreaPayloads \cup {Fresh("Area", "", k) : k \in Kinds} \cup {Fresh("Track", "", "tuned")}
TrackArgs == TrackPayloads \cup {Fresh("Track", "", k) : k \in Kinds}
AgentArgs == AgentPayloads \cup {Fresh("Agent", n, k) : n \in AgentNames, k \in Kinds}
                           \cup {Fresh("Track", "", "tuned")}

(* the agents argument of the constructor: None, or a list of [name, kind] *)
InitAgents == {<<>>,
               <<[name |-> DEFAULT_AGENT_NAME, kind |-> "plain"]>>,
               <<[name |-> "bot1", kind |-> "tuned"]>>,
               <<[name |-> "bot1", kind |-> "plain"], [name |-> DEFAULT_AGENT_NAME, kind |-> "tuned"]>>,
               <<[name |-> "bot1", kind |-> "plain"], [name |-> "bot1", kind |-> "tuned"]>>}

RECURSIVE BuildAgents(_, _)
BuildAgents(h, list) ==
    IF list = <<>> THEN [h |-> h, refs |-> <<>>]
    ELSE With(NewAgent(h, Head(list).name, Head(list).kind), LAMBDA b :
         With(BuildAgents(b.h, Tail(list)), LAMBDA rest :
            [h |-> rest.h, refs |-> <<Ref(b.ref)>> \o rest.refs]))

\* the server a caller constructs: with_area, with_track: pass a tuned entity or None
Construct(with_area, with_track, with_agents, agents) ==
    With(IF with_area THEN NewArea(<<>>, "tuned") ELSE [h |-> <<>>, ref |-> 0], LAMBDA a :
    With(IF with_track THEN NewTrack(a.h, "tuned") ELSE [h |-> a.h, ref |-> 0], LAMBDA t :
    With(BuildAgents(t.h, agents), LAMBDA g :
        ConfigServer_init(g.h,
                          IF with_area THEN Ref(a.ref) ELSE JNone,
                          IF with_track THEN Ref(t.ref) ELSE JNone,
                          IF with_agents THEN JList(g.refs) ELSE JNone))))

\* the states after construction, for the given choices of constructor arguments
InitServer(areas, tracks, lists) ==
    \E with_area \in areas, with_track \in tracks, with_agents \in BOOLEAN, agents \in lists :
        /\ with_agents \/ agents = <<>>
        /\ \E c \in {Compact(Construct(with_area, with_track, with_agents, agents), <<>>)} :
               /\ heap = c.S.h
               /\ area = c.S.area
               /\ track = c.S.track
               /\ agent_map = c.S.agent_map
               /\ is_started = c.S.is_started
               /\ observing = c.S.observing
               /\ held = c.held
        /\ sent = <<>>
        /\ op = Record("ConfigServer", <<>>, JNone, "returned", JNone)
        /\ server_lock = "free"
        /\ life = [c \in Contexts |-> Idle]
        /\ state_lock = "free"
        /\ dispatch = NoCall
        /\ direct = NoCall

\* the contexts of the transport that call Client.on_received
Deliverers == {"d1", "d2"}

\* the contexts, other than the caller of get_*, that wait in _get
Waiters == {"w1", "w2"}

\* a context that is not in _get; cond is the maker of the Condition a context holds
NotWaiting == [key |-> <<>>, cond |-> "none", at |-> "idle"]

\* the keys Client.get_area / get_agents / get_track fetch
GetKeys == {<<KEY_PREFIX, "get", t>> : t \in {"area", "agents", "track"}}

\* Client(side_channel, timeout, max_retry_attempts)
InitClient(timeouts, retries) ==
    /\ timeout \in timeouts
    /\ max_retry_attempts \in retries
    /\ pc = "idle"
    /\ get_key = <<>>
    /\ try_count = 0
    /\ sends = 0
    /\ waits = 0
    /\ cond_owner = [k \in {} |-> "free"]
    /\ cond_made = [k \in {} |-> "client"]
    /\ waiters = [c \in Waiters |-> NotWaiting]
    /\ heard = NotHeard
    /\ traffic = [k \in GetKeys |-> [requests |-> 0, replies |-> 0]]
    /\ map_lock = "free"
    /\ callback = [t \in Deliverers |-> NoCall]
    /\ res_map = <<>>
    /\ result = JNone
    /\ net = EmptyBag

Init == InitServer(BOOLEAN, BOOLEAN, InitAgents) /\ InitClient({"finite"}, {0})

Next ==
    \/ CallGetArea(FALSE)
    \/ CallGetTrack(FALSE)
    \/ CallGetAgents(FALSE, 1)
    \/ \E name \in AgentNames : CallGetAgent(name, FALSE)
    \/ \E x \in AreaArgs : CallApplyArea(x, FALSE)
    \/ \E x \in TrackArgs : CallApplyTrack(x, FALSE)
    \/ \E x \in AgentArgs : CallApplyAgent(x, FALSE)
    \/ \E x \in AgentArgs : CallSpawnAgent(x, FALSE)
    \/ \E x \in AgentArgs : CallDeleteAgent(x, FALSE)
    \/ \E key \in WellFormedKeys \cup MalformedKeys \cup ForeignKeys :
          \E value \in PayloadsFor(key) : Receive(key, value)

Spec == Init /\ [][Next]_vars

TypeOK ==
    /\ Len(agent_map) <= Cardinality(AgentNames)
    /\ \A i \in DOMAIN agent_map : heap[agent_map[i].val].name = agent_map[i].key
    /\ heap[area].cls = "Area"
    /\ heap[track].cls = "Track"

-----------------------------------------------------------------------------
(* The calling code keeps hold of entities (the ones it was returned, the  *)
(* ones it passed in) and changes them through their property setters.     *)

\* obj.field = value through the property setter: [ok, h]
SetAttr(h, ref, field, value) ==
    CASE h[ref].cls = "Area" /\ field = "game_over_condition" ->
            LET e == EnumOf(GameOverConditionType, value)
            IN  [ok |-> e.ok, h |-> IF e.ok THEN [h EXCEPT ![ref].game_over_condition = e.v] ELSE h]
      [] h[ref].cls = "Track" /\ field = "finish_line" ->
            LET f == PyFloat(value)
            IN  [ok |-> f.ok, h |-> IF f.ok THEN [h EXCEPT ![ref].finish_line = f.v] ELSE h]
      [] h[ref].cls = "Agent" /\ field = "shell" ->
            [ok |-> TRUE, h |-> [h EXCEPT ![ref].shell = PyStr(value)]]
      [] h[ref].cls = "Agent" /\ field = "start_location.normalized_distance" ->
            LET f == PyFloat(value)
            IN  [ok |-> f.ok,
                 h |-> IF f.ok THEN [h EXCEPT ![h[ref].start_location].normalized_distance = f.v]
                       ELSE h]
      [] OTHER -> [ok |-> FALSE, h |-> h]

Setters == {[cls |-> "Area", field |-> "game_over_condition", value |-> JStr("all")],
            [cls |-> "Track", field |-> "finish_line", value |-> JNum(1)],
            [cls |-> "Agent", field |-> "start_location.normalized_distance", value |-> JNum(1)]}

\* the caller assigns to a field of the entity it holds at position i
Mutate(i, st) ==
    /\ i \in DOMAIN held
    /\ heap[held[i].ref].cls = st.cls
    /\ UNCHANGED cvars
    /\ \E m \in {SetAttr(heap, held[i].ref, st.field, st.value)} :
          Commit([Server EXCEPT !.h = m.h], held, <<>>,
                 Record("setattr", <<>>, JStr(held[i].origin),
                        IF m.ok THEN "returned" ELSE "raised", JNone))

LiveArgs == {Held(i) : i \in 1..MaxHeld} \cup {Fresh("Agent", "bot1", "plain")}

AliasNext ==
    \/ CallGetArea(TRUE)
    \/ CallGetTrack(TRUE)
    \/ \E pick \in 1..Cardinality(AgentNames) : CallGetAgents(TRUE, pick)
    \/ \E name \in AgentNames : CallGetAgent(name, TRUE)
    \/ \E x \in LiveArgs : CallApplyArea(x, FALSE)
    \/ \E x \in LiveArgs : CallApplyTrack(x, FALSE)
    \/ \E x \in LiveArgs : CallApplyAgent(x, FALSE)
    \/ \E x \in LiveArgs : CallSpawnAgent(x, FALSE)
    \/ \E x \in LiveArgs : CallDeleteAgent(x, FALSE)
    \/ \E i \in 1..MaxHeld, st \in Setters : Mutate(i, st)

AliasInit ==
    /\ InitServer({FALSE}, {FALSE},
                  {<<>>, <<[name |-> "bot1", kind |-> "plain"],
                           [name |-> DEFAULT_AGENT_NAME, kind |-> "plain"]>>})
    /\ InitClient({"finite"}, {0})

AliasSpec == AliasInit /\ [][AliasNext]_vars

-----------------------------------------------------------------------------
(* What the server holds, as values *)

AgentsView == [i \in DOMAIN agent_map |-> Value(heap, agent_map[i].val)]
View == [area |-> Value(heap, area), track |-> Value(heap, track), agents |-> AgentsView]
NamesView == [i \in DOMAIN agent_map |-> agent_map[i].key]

Key(action, target) == <<KEY_PREFIX, action, target>>

\* the call o is server.{action}_{target}, direct or dispatched from a message
IsCall(o, action, target) ==
    \/ o.name = action \o "_" \o target
    \/ o.name = "on_received" /\ o.key = Key(action, target)

\* the positions of a sequence of agent values that hold the name n
Named(view, n) == {i \in DOMAIN view : view[i].name = n}

\* the sequence without the agents named n
Without(view, n) ==
    LET Other(a) == a.name # n IN SelectSeq(view, Other)

-----------------------------------------------------------------------------
(* C3: after construction and after any sequence of apply_agent,           *)
(* spawn_agent and delete_agent, direct or dispatched, the agent registry  *)
(* holds at least one agent.                                               *)
C3_RegistryNeverEmpty == Len(agent_map) >= 1

\* a delete of the only agent, by its own name, was asked for and ignored
C3_Witness ==
    /\ IsCall(op, "delete", "agent")
    /\ op.size = 1
    /\ op.given.t = "val"
    /\ DictHas(agent_map, op.given.v.name)

(* C4: delete_agent on a registry of size 1 changes nothing; on a registry *)
(* of size >= 2 it removes exactly the entry with the given name, leaves   *)
(* every other entry as it is, and changes nothing when no entry has the   *)
(* name.                                                                   *)
C4_DeleteAgent ==
    [][IsCall(op', "delete", "agent") =>
          IF Len(agent_map) = 1 \/ op'.given.t # "val"
          THEN AgentsView' = AgentsView
          ELSE AgentsView' = Without(AgentsView, op'.given.v.name)]_vars

\* an entry was removed from a registry of two or more, the other one was kept
C4_Witness ==
    /\ IsCall(op, "delete", "agent")
    /\ op.size >= 2
    /\ op.prior.t = "val"
    /\ Len(agent_map) = op.size - 1
    /\ ~DictHas(agent_map, op.given.v.name)

(* C5: apply_agent never changes the set of agent names: the entry with    *)
(* the given name is replaced by the given agent, and when there is no     *)
(* such entry the registry is unchanged.                                   *)
C5_ApplyAgent ==
    [][IsCall(op', "apply", "agent") =>
          /\ NamesView' = NamesView
          /\ IF op'.given.t = "val" /\ DictHas(agent_map, op'.given.v.name)
             THEN AgentsView' = [i \in DOMAIN AgentsView |->
                                    IF AgentsView[i].name = op'.given.v.name
                                    THEN op'.given.v ELSE AgentsView[i]]
             ELSE AgentsView' = AgentsView]_vars

\* an entry was replaced by an agent of other field values
C5_Witness ==
    /\ IsCall(op, "apply", "agent")
    /\ op.prior.t = "val"
    /\ op.prior # op.given
    /\ Value(heap, DictGet(agent_map, op.given.v.name)) = op.given.v

\* an apply_agent of a name the registry does not hold
C5_WitnessAbsent ==
    /\ IsCall(op, "apply", "agent")
    /\ op.given.t = "val"
    /\ op.prior = JNone
    /\ op.end \in {"returned", "handled"}

(* C6: spawn_agent is an upsert by name: afterwards exactly one entry has  *)
(* the given name and it equals the given agent, the other entries are     *)
(* unchanged, the size grows by one for a new name and stays for a known   *)
(* one; spawning an agent twice gives what spawning it once gives.         *)
C6_SpawnOnce ==
    \A d \in AgentDocs :
        \A once \in {spawn_agent(Server, d).S} : \A twice \in {spawn_agent(once, d).S} :
            /\ Len(twice.agent_map) = Len(once.agent_map)
            /\ [i \in DOMAIN twice.agent_map |-> Value(twice.h, twice.agent_map[i].val)]
               = [i \in DOMAIN once.agent_map |-> Value(once.h, once.agent_map[i].val)]

C6_SpawnAgent ==
    /\ []C6_SpawnOnce
    /\ [][(IsCall(op', "spawn", "agent") /\ op'.given.t = "val") =>
             LET n == op'.given.v.name
             IN  /\ Cardinality(Named(AgentsView', n)) = 1
                 /\ \A i \in Named(AgentsView', n) : AgentsView'[i] = op'.given.v
                 /\ Without(AgentsView', n) = Without(AgentsView, n)
                 /\ Len(agent_map') = IF DictHas(agent_map, n) THEN Len(agent_map)
                                      ELSE Len(agent_map) + 1]_vars

\* the second spawn of a name, with other field values, kept one entry with the latest
C6_Witness ==
    /\ IsCall(op, "spawn", "agent")
    /\ op.prior.t = "val"
    /\ op.prior # op.given
    /\ Len(agent_map) = op.size
    /\ Value(heap, DictGet(agent_map, op.given.v.name)) = op.given.v

(* C8: for a message with key deepracer_config::get::T, T one of area,     *)
(* track, agents, the server sends exactly once, on the key the request    *)
(* came on, the encoding of its state for T (for agents the list of the    *)
(* encodings in registry order), and its state is unchanged.               *)
C8_GetReply ==
    [][(op'.name = "on_received" /\ op'.key \in {Key("get", t) : t \in {"area", "track", "agents"}}) =>
          /\ Len(sent') = 1
          /\ sent'[1].key = op'.key
          /\ sent'[1].value =
                CASE op'.key[3] = "area" -> Dumps(Area_to_json(heap, area))
                  [] op'.key[3] = "track" -> Dumps(Track_to_json(heap, track))
                  [] OTHER -> Dumps(JList([i \in DOMAIN agent_map |->
                                              Agent_to_json(heap, agent_map[i].val)]))
          /\ View' = View]_vars

\* a get::agents message was answered from a registry of two agents
C8_Witness ==
    /\ op.name = "on_received"
    /\ op.key = Key("get", "agents")
    /\ Len(sent) = 1
    /\ Len(agent_map) = 2
    /\ op.end = "handled"

(* C9: for a message whose action is apply, spawn or delete the server     *)
(* sends nothing, whether the handler succeeds, does nothing or fails.     *)
C9_NoReply ==
    (op.name = "on_received" /\ Len(op.key) = 3 /\ op.key[1] = KEY_PREFIX
        /\ op.key[2] \in {"apply", "spawn", "delete"}) => sent = <<>>

\* an apply::agent message replaced an entry
C9_Witness ==
    /\ op.name = "on_received"
    /\ op.key = Key("apply", "agent")
    /\ op.end = "handled"
    /\ op.prior.t = "val"
    /\ op.prior # op.given
    /\ sent = <<>>

\* the key carries the reserved prefix and is not prefix::action::target
Malformed(key) ==
    /\ StartsWithPrefix(key)
    /\ ~(Len(key) = 3 /\ key[1] = KEY_PREFIX /\ key[2] \in ActionType /\ key[3] \in TargetType)

(* C10: for a message whose key has the reserved prefix but is malformed,  *)
(* and for a well-formed message whose handler raises (a mutator given a   *)
(* payload that is not an encoding of its entity), on_received returns     *)
(* without raising, sends nothing and leaves area, track and registry as   *)
(* they are.                                                               *)
C10_BadMessageDropped ==
    [][(op'.name = "on_received" /\
          (\/ Malformed(op'.key)
           \/ op'.end = "method threw"
           \/ (\E t \in {"area", "track", "agent"} : op'.key = Key("apply", t)) /\ op'.given = JNone
           \/ op'.key = Key("spawn", "agent") /\ op'.given = JNone
           \/ op'.key = Key("delete", "agent") /\ op'.given = JNone)) =>
          /\ op'.end # "raised"
          /\ sent' = <<>>
          /\ View' = View]_vars

\* an apply::agent message carried something else than an encoded agent and was dropped
C10_Witness ==
    /\ op.name = "on_received"
    /\ op.key = Key("apply", "agent")
    /\ op.given = JNone
    /\ op.end = "method threw"

\* a message with a malformed key was dropped
C10_WitnessKey ==
    /\ op.name = "on_received"
    /\ Malformed(op.key)
    /\ op.end \in {"invalid key", "invalid prefix"}

\* the objects an entity is made of
Reach(h, ref) == IF h[ref].cls = "Agent" THEN {ref, h[ref].start_location} ELSE {ref}

\* the objects the server's state is made of
ServerRefs ==
    Reach(heap, area) \cup Reach(heap, track)
        \cup UNION {Reach(heap, agent_map[i].val) : i \in DOMAIN agent_map}

\* no entity an accessor returned shares an object with the server's state
NoSharing ==
    \A i \in DOMAIN held :
        held[i].origin = "returned" => Reach(heap, held[i].ref) \cap ServerRefs = {}

(* C7: what get_area, get_track, get_agents and get_agent return is a      *)
(* fresh copy (for an agent the start location too): a change the caller   *)
(* makes to a returned entity never changes what the server holds, hence   *)
(* what a later accessor call or get reply returns.                        *)
C7_DefensiveCopies ==
    /\ []NoSharing
    /\ [][(op'.name = "setattr" /\ op'.given = JStr("returned")) => View' = View]_vars

\* the caller changed the start location of an agent it was returned; the server's is as before
C7_Witness ==
    /\ op.name = "setattr"
    /\ op.given = JStr("returned")
    /\ op.end = "returned"
    /\ \E i \in DOMAIN held :
          /\ held[i].origin = "returned"
          /\ heap[held[i].ref].cls = "Agent"
          /\ DictHas(agent_map, heap[held[i].ref].name)
          /\ Value(heap, held[i].ref).start_location.normalized_distance = 1
          /\ Value(heap, DictGet(agent_map, heap[held[i].ref].name)).start_location.normalized_distance = 0

-----------------------------------------------------------------------------
(* Client: get_area / get_agents / get_track through _get, and the         *)
(* delivery callback.  One caller; the transport delivers on contexts of   *)
(* its own: a request to the server while it is registered, a reply to     *)
(* the client, in any order, and it may lose a message.                    *)

MaxRetry == 1
MaxInFlight == 1

Msg(to, key, value) == [to |-> to, key |-> key, value |-> value]

\* side_channel.send: the message is in flight, or lost when the channel is full
Transmit(bag, m) == IF BagCardinality(bag) < MaxInFlight THEN bag (+) SetToBag({m}) ELSE bag

RECURSIVE TransmitAll(_, _)
TransmitAll(bag, ms) ==
    IF ms = <<>> THEN bag ELSE TransmitAll(Transmit(bag, Head(ms)), Tail(ms))

\* cls.from_json(j) as a value, or an error when it raised
DecodedOne(cls, j) ==
    With(CASE cls = "Area" -> Area_from_json(<<>>, j)
           [] cls = "Track" -> Track_from_json(<<>>, j)
           [] OTHER -> Agent_from_json(<<>>, j),
         LAMBDA e : IF e.ok THEN AsValue(e.h, Ref(e.ref)) ELSE [t |-> "error"])

\* variant: a get_agents that decodes the first agent of the reply only
Decoded_first(target, json) ==
    IF target = "agents" THEN JList(<<DecodedOne("Agent", json.items[1])>>)
    ELSE DecodedOne(ClassOf(target), json)

\* Area.from_json / Track.from_json / [Agent.from_json(a) for a in agents_json] of a get_*
Decoded(target, json) ==
    IF target = "agents"
    THEN IF json.t # "list" THEN [t |-> "error"]
         ELSE With([i \in DOMAIN json.items |-> DecodedOne("Agent", json.items[i])], LAMBDA items :
                 IF \A i \in DOMAIN items : items[i].t = "val" THEN JList(items)
                 ELSE [t |-> "error"])
    ELSE DecodedOne(ClassOf(target), json)

\* self._res_cond_map[key] of a defaultdict(Condition): a new Condition for a new key
CondOf(conds, key) ==
    IF key \in DOMAIN conds THEN conds
    ELSE [k \in DOMAIN conds \cup {key} |-> IF k = key THEN "free" ELSE conds[k]]

\* the makers of the Conditions of the keys: those there were, and by c the new ones
MadeFor(made, keys, c) == [k \in keys |-> IF k \in DOMAIN made THEN made[k] ELSE c]

GetIdle == pc \in {"idle", "returned", "raised", "failed"}

\* Client.get_area / get_agents / get_track is called: _get starts
GetStart(target) ==
    /\ GetIdle
    /\ pc' = "enter"
    /\ get_key' = Key("get", target)
    /\ try_count' = 0
    /\ sends' = 0
    /\ waits' = 0
    /\ result' = JNone
    /\ cond_owner' = CondOf(cond_owner, get_key')
    /\ cond_made' = MadeFor(cond_made, DOMAIN cond_owner', "getter")
    /\ UNCHANGED <<svars, lvars, xvars, waiters, held, sent, op, timeout, max_retry_attempts, res_map, net>>

\* with condition:
GetEnter ==
    /\ pc = "enter"
    /\ cond_owner[get_key] = "free"
    /\ cond_owner' = [cond_owner EXCEPT ![get_key] = "getter"]
    /\ pc' = "send"
    /\ UNCHANGED cond_made
    /\ UNCHANGED <<svars, lvars, xvars, waiters, held, sent, op, timeout, max_retry_attempts, get_key, try_count, sends,
                   waits, res_map, result, net>>

(* variant: a send over a transport that runs the observers on the         *)
(* caller's context, where Client.on_received takes self._lock             *)
GetSend_inline ==
    /\ pc = "send"
    /\ map_lock = "free"
    /\ net' = Transmit(net, Msg("server", get_key, JStr("")))
    /\ sends' = sends + 1
    /\ pc' = "wait"
    /\ UNCHANGED <<svars, lvars, xvars, waiters, held, sent, op, timeout, max_retry_attempts, get_key, try_count, waits,
                   cond_owner, cond_made, res_map, result>>

\* self._side_channel.send(key, "")
GetSend ==
    /\ pc = "send"
    /\ net' = Transmit(net, Msg("server", get_key, JStr("")))
    /\ sends' = sends + 1
    /\ pc' = "wait"
    /\ UNCHANGED <<svars, lvars, xvars, waiters, held, sent, op, timeout, max_retry_attempts, get_key, try_count, waits,
                   cond_owner, cond_made, res_map, result>>

\* variant: a wait that does not block when the response map has the key
GetWait_cached ==
    /\ pc = "wait"
    /\ cond_owner' = [cond_owner EXCEPT ![get_key] = "free"]
    /\ waits' = waits + 1
    /\ UNCHANGED cond_made
    /\ pc' = IF DictHas(res_map, get_key) THEN "woken" ELSE "waiting"
    /\ UNCHANGED <<svars, lvars, xvars, waiters, held, sent, op, timeout, max_retry_attempts, get_key, try_count, sends,
                   res_map, result, net>>

\* condition.wait(timeout) releases the condition and blocks
GetWait ==
    /\ pc = "wait"
    /\ cond_owner' = [cond_owner EXCEPT ![get_key] = "free"]
    /\ waits' = waits + 1
    /\ UNCHANGED cond_made
    /\ pc' = "waiting"
    /\ UNCHANGED <<svars, lvars, xvars, waiters, held, sent, op, timeout, max_retry_attempts, get_key, try_count, sends,
                   res_map, result, net>>

\* variant: a wait that gives up whatever the timeout is
GetTimeout_any ==
    /\ pc = "waiting"
    /\ pc' = "expired"
    /\ UNCHANGED <<svars, lvars, xvars, waiters, held, sent, op, timeout, max_retry_attempts, get_key, try_count, sends,
                   waits, cond_owner, cond_made, res_map, result, net>>

\* the timeout of condition.wait elapses; wait(None) has none
GetTimeout ==
    /\ pc = "waiting"
    /\ timeout = "finite"
    /\ pc' = "expired"
    /\ UNCHANGED <<svars, lvars, xvars, waiters, held, sent, op, timeout, max_retry_attempts, get_key, try_count, sends,
                   waits, cond_owner, cond_made, res_map, result, net>>

\* wait returned True: return self._res_map[key], which get_* decodes
GetReturn ==
    /\ pc = "woken"
    /\ cond_owner[get_key] = "free"
    /\ result' = Decoded(get_key[3], DictGet(res_map, get_key))
    /\ pc' = IF result'.t = "error" THEN "failed" ELSE "returned"
    /\ UNCHANGED <<svars, lvars, xvars, waiters, held, sent, op, timeout, max_retry_attempts, get_key, try_count, sends,
                   waits, cond_owner, cond_made, res_map, net>>

\* variant: a retry test that gives up one attempt early
GaveUp_early(count, limit) == count >= limit

\* if try_count > max_retry_attempts
GaveUp(count, limit) == count > limit

\* wait returned False: count the try, raise TimeoutError or go round the loop
GetRetry ==
    /\ pc = "expired"
    /\ cond_owner[get_key] = "free"
    /\ try_count' = try_count + 1
    /\ pc' = IF GaveUp(try_count + 1, max_retry_attempts) THEN "raised" ELSE "enter"
    /\ UNCHANGED <<svars, lvars, xvars, waiters, held, sent, op, timeout, max_retry_attempts, get_key, sends, waits,
                   cond_owner, cond_made, res_map, result, net>>

(* condition.notify_all() of the Condition that `made` made for the key:   *)
(* every context waiting on that Condition is woken                        *)
NotifyAll(ws, key, made) ==
    [c \in DOMAIN ws |-> IF ws[c] = [key |-> key, cond |-> made, at |-> "waiting"]
                         THEN [ws[c] EXCEPT !.at = "woken"] ELSE ws[c]]

\* variant: a callback that keeps the result the response map has for the key
Client_on_received_first(rm, conds, key, value) ==
    IF ~StartsWithPrefix(key)
    THEN [ok |-> TRUE, res_map |-> rm, conds |-> conds, notified |-> FALSE]
    ELSE With(Loads(value), LAMBDA d :
            IF d.ok THEN [ok |-> TRUE, res_map |-> IF DictHas(rm, key) THEN rm ELSE DictSet(rm, key, d.v),
                          conds |-> CondOf(conds, key), notified |-> TRUE]
            ELSE [ok |-> FALSE, res_map |-> rm, conds |-> CondOf(conds, key),
                  notified |-> FALSE])

(* Client.on_received: [ok, res_map, conds, notified]; ok = FALSE when     *)
(* json.loads raised, notified = TRUE when notify_all was called           *)
Client_on_received(rm, conds, key, value) ==
    IF ~StartsWithPrefix(key)
    THEN [ok |-> TRUE, res_map |-> rm, conds |-> conds, notified |-> FALSE]
    ELSE With(Loads(value), LAMBDA d :
            IF d.ok THEN [ok |-> TRUE, res_map |-> DictSet(rm, key, d.v),
                          conds |-> CondOf(conds, key), notified |-> TRUE]
            ELSE [ok |-> FALSE, res_map |-> rm, conds |-> CondOf(conds, key),
                  notified |-> FALSE])

(* the callback runs with outcome r: it needs the lock of the key's         *)
(* condition, and wakes who waits on it                                    *)
ClientHandle(key, r) ==
    /\ (StartsWithPrefix(key) /\ key \in DOMAIN cond_owner) => cond_owner[key] = "free"
    /\ res_map' = r.res_map
    /\ cond_owner' = r.conds
    /\ cond_made' = MadeFor(cond_made, DOMAIN r.conds, "client")
    /\ pc' = IF r.notified /\ pc = "waiting" /\ get_key = key THEN "woken" ELSE pc
    /\ waiters' = IF r.notified THEN NotifyAll(waiters, key, cond_made'[key]) ELSE waiters

\* the transport hands a message to the client
ClientDeliver(m) ==
    /\ BagIn(m, net)
    /\ m.to = "client"
    /\ \E r \in {Client_on_received(res_map, cond_owner, m.key, m.value)} : ClientHandle(m.key, r)
    /\ net' = net (-) SetToBag({m})
    /\ UNCHANGED <<svars, lvars, xvars, held, sent, op, timeout, max_retry_attempts, get_key, try_count,
                   sends, waits, result>>

\* the transport hands a message to the server, which is registered
ServerDeliver(m) ==
    /\ BagIn(m, net)
    /\ m.to = "server"
    /\ observing
    /\ \E r \in {on_received(Server, m.key, m.value)} :
          /\ net' = TransmitAll(net (-) SetToBag({m}),
                                [i \in DOMAIN r.sent |-> Msg("client", r.sent[i].key, r.sent[i].value)])
          /\ Commit(r.S, held, sent, op)
    /\ UNCHANGED <<timeout, max_retry_attempts, pc, get_key, try_count, sends, waits, cond_owner, cond_made,
                   waiters, res_map, result>>

\* the transport loses a message
Lose(m) ==
    /\ BagIn(m, net)
    /\ net' = net (-) SetToBag({m})
    /\ UNCHANGED <<svars, lvars, xvars, waiters, held, sent, op, timeout, max_retry_attempts, pc, get_key, try_count,
                   sends, waits, cond_owner, cond_made, res_map, result>>

\* no get is in progress and no message is in flight
Quiet == GetIdle /\ net = EmptyBag

\* server.spawn_agent is called while nothing of a get is under way
QuietSpawn ==
    /\ Quiet
    /\ Commit(spawn_agent(Server, AgentDoc("bot1", "tuned")).S, held, sent, op)
    /\ UNCHANGED cvars

\* server.start() / server.stop() is called
ServerStart ==
    /\ Commit(start(Server), held, sent, op)
    /\ UNCHANGED cvars

ServerStop ==
    /\ Commit(stop(Server), held, sent, op)
    /\ UNCHANGED cvars

GetInit ==
    /\ InitServer({TRUE}, {TRUE}, {<<>>})
    /\ InitClient({"finite", "none"}, 0..MaxRetry)

GetNext ==
    \/ \E target \in {"area", "agents", "track"} : GetStart(target)
    \/ GetEnter
    \/ GetSend
    \/ GetWait
    \/ GetTimeout
    \/ GetReturn
    \/ GetRetry
    \/ \E m \in BagToSet(net) : ClientDeliver(m)
    \/ \E m \in BagToSet(net) : ServerDeliver(m)
    \/ \E m \in BagToSet(net) : Lose(m)
    \/ QuietSpawn
    \/ ServerStart
    \/ ServerStop

GetSpec == GetInit /\ [][GetNext]_vars

\* the steps of _get's loop up to the outcome of a wait
GetSteps == GetEnter \/ GetSend \/ GetWait \/ GetTimeout \/ GetRetry

\* the caller's thread runs its loop, and a finite timeout elapses
FairGetSpec == GetSpec /\ WF_vars(GetSteps)

\* the server's current state for a target, as values
Current(target) ==
    CASE target = "area" -> AsValue(heap, Ref(area))
      [] target = "track" -> AsValue(heap, Ref(track))
      [] OTHER -> JList([i \in DOMAIN agent_map |-> AsValue(heap, Ref(agent_map[i].val))])

-----------------------------------------------------------------------------
(* C1: with max_retry_attempts N >= 0 and a finite timeout, a _get that is *)
(* never woken by a response raises TimeoutError; it never sends the key   *)
(* more than N + 1 times, and when it raises it has sent exactly N + 1     *)
(* times, each time with an empty payload, and waited exactly N + 1 times. *)
C1_Counted ==
    /\ sends <= max_retry_attempts + 1
    /\ waits <= sends
    /\ \A m \in BagToSet(net) : m.to = "server" => m.value = JStr("")
    /\ pc = "raised" => /\ timeout = "finite"
                        /\ sends = max_retry_attempts + 1
                        /\ waits = max_retry_attempts + 1

C1_Timeout ==
    /\ []C1_Counted
    /\ (pc = "enter" /\ timeout = "finite") ~> (pc = "woken" \/ pc = "raised")

\* a get gave up after two sends and two waits, the second request still in flight
C1_Witness ==
    /\ pc = "raised"
    /\ max_retry_attempts = 1
    /\ sends = 2
    /\ waits = 2
    /\ BagIn(Msg("server", get_key, JStr("")), net)

(* C2: for area, track and agents, a get whose request reached the started *)
(* server and whose reply reached the client, with no change of the        *)
(* server's state while the get or a message is under way, returns a value *)
(* equal to the server's current state for the target: for agents the same *)
(* entities in registry order.  Decoding never fails.                      *)
C2_RoundTrip ==
    [][pc = "woken" /\ pc' # "woken" =>
          /\ pc' = "returned"
          /\ result' = Current(get_key[3])']_vars

\* get_agents returned two agents, the second spawned with values of its own
C2_Witness ==
    /\ pc = "returned"
    /\ get_key = Key("get", "agents")
    /\ result.t = "list"
    /\ Len(result.items) = 2
    /\ result.items[2] = AsValue(heap, Ref(DictGet(agent_map, "bot1")))

\* get_area and get_track returned the server's area and track
C2_WitnessArea == pc = "returned" /\ get_key = Key("get", "area") /\ result = Current("area")
C2_WitnessTrack == pc = "returned" /\ get_key = Key("get", "track") /\ result = Current("track")

-----------------------------------------------------------------------------
(* start() and stop() step by step, called from several contexts.  Each    *)
(* runs under `with self._server_lock`: test _is_started, call the side    *)
(* channel, set the flag.                                                  *)

\* variant: a lock that lets every context in
CanAcquire_any(owner, c) == owner \in {"free"} \cup Contexts

\* an RLock can be taken when it is free or held by the taker
CanAcquire(owner, c) == owner \in {"free", c}

\* what start() sets the flag to, and what stop() does
Target(m) == m = "start"

\* context c calls start() or stop() and enters `with self._server_lock`
LifeAcquire(c, m) ==
    /\ life[c] = Idle
    /\ CanAcquire(server_lock, c)
    /\ server_lock' = c
    /\ life' = [life EXCEPT ![c] = [m |-> m, at |-> "test"]]
    /\ UNCHANGED <<svars, held, sent, op, cvars, xvars>>

\* if not self._is_started (start) / if self._is_started (stop)
LifeTest(c) ==
    /\ life[c].at = "test"
    /\ life' = [life EXCEPT ![c].at = IF is_started # Target(life[c].m) THEN "call" ELSE "release"]
    /\ UNCHANGED <<svars, server_lock, held, sent, op, cvars, xvars>>

\* self._side_channel.register(observer=self) / unregister(observer=self)
LifeTransport(c) ==
    /\ life[c].at = "call"
    /\ observing' = Target(life[c].m)
    /\ life' = [life EXCEPT ![c].at = "flag"]
    /\ UNCHANGED <<heap, area, track, agent_map, is_started, server_lock, held, sent, op, cvars,
                   xvars>>

\* self._is_started = True / False
LifeFlag(c) ==
    /\ life[c].at = "flag"
    /\ is_started' = Target(life[c].m)
    /\ life' = [life EXCEPT ![c].at = "release"]
    /\ UNCHANGED <<heap, area, track, agent_map, observing, server_lock, held, sent, op, cvars,
                   xvars>>

\* the with block ends: the lock is released and the call returns
LifeRelease(c) ==
    /\ life[c].at = "release"
    /\ server_lock' = IF server_lock = c THEN "free" ELSE server_lock
    /\ life' = [life EXCEPT ![c] = Idle]
    /\ UNCHANGED <<svars, held, sent, op, cvars, xvars>>

LifeNext ==
    \E c \in Contexts :
        \/ LifeAcquire(c, "start")
        \/ LifeAcquire(c, "stop")
        \/ LifeTest(c)
        \/ LifeTransport(c)
        \/ LifeFlag(c)
        \/ LifeRelease(c)

LifeSpec == Init /\ [][LifeNext]_vars

(* C13: the server is started after construction; a stop() of a started    *)
(* server unregisters once and clears is_started, a start() of a stopped   *)
(* one registers once and sets it, and a stop() of a stopped or a start()  *)
(* of a started server changes nothing and makes no transport call.  So,   *)
(* however calls from several contexts interleave, register and unregister *)
(* calls alternate (a register is made only while the server is not        *)
(* registered, an unregister only while it is), and is_started equals      *)
(* "registered" whenever no call is in progress.                           *)
C13_Lifecycle ==
    /\ (is_started = TRUE /\ observing = TRUE)
    /\ []((\A c \in Contexts : life[c] = Idle) => is_started = observing)
    /\ [](\A c \in Contexts : life[c].at = "release" =>
             (is_started = Target(life[c].m) /\ observing = is_started))
    /\ [][(observing' # observing \/ is_started' # is_started) =>
            \E c \in Contexts : life[c].at \in {"call", "flag"} /\ life'[c] # life[c]]_vars
    /\ [][\A c \in Contexts :
            /\ (life[c].at = "call" /\ life'[c].at # "call") =>
                  /\ observing # Target(life[c].m)
                  /\ observing' = Target(life[c].m)
                  /\ is_started = observing
            /\ (life[c].at = "test" /\ life'[c].at = "release") =>
                  /\ is_started = Target(life[c].m)
                  /\ UNCHANGED <<is_started, observing>>
            /\ (life[c].at = "test" /\ life'[c].at = "call") => is_started # Target(life[c].m)]_vars

\* a stop() of a started server has unregistered, cleared the flag and is about to return
C13_Witness ==
    \E c \in Contexts :
        /\ life[c] = [m |-> "stop", at |-> "release"]
        /\ ~is_started
        /\ ~observing

\* a start() of a stopped server has registered again
C13_WitnessRestart ==
    \E c \in Contexts :
        /\ life[c] = [m |-> "start", at |-> "flag"]
        /\ observing
        /\ ~is_started

\* a stop() of a stopped server found nothing to do
C13_WitnessNoop ==
    \E c \in Contexts :
        /\ life[c] = [m |-> "stop", at |-> "release"]
        /\ server_lock = c
        /\ ~is_started
        /\ \E d \in Contexts \ {c} : life[d] = Idle

-----------------------------------------------------------------------------
(* The client's mutators and its callback, called directly, with other     *)
(* contexts waiting in _get.                                               *)

\* the mutators of Client: action, target
ClientMutators == {<<"apply", "area">>, <<"apply", "agent">>, <<"apply", "track">>,
                   <<"spawn", "agent">>, <<"delete", "agent">>}

\* the mutators that start with `if not isinstance(...): raise ValueError`
TypeChecked(action, target) ==
    <<action, target>> \in {<<"apply", "agent">>, <<"apply", "track">>,
                            <<"spawn", "agent">>, <<"delete", "agent">>}

\* variant: a mutator that sends the entity's encoding twice
Client_mutate_twice(h, action, target, x) ==
    IF TypeChecked(action, target) /\ ~IsInstance(h, x, ClassOf(target))
    THEN [end |-> "ValueError", sent |-> <<>>]
    ELSE IF x.t # "ref" THEN [end |-> "AttributeError", sent |-> <<>>]
    ELSE [end |-> "returned",
          sent |-> <<[key |-> Key(action, target), value |-> Dumps(to_json(h, x.ref))],
                     [key |-> Key(action, target), value |-> Dumps(to_json(h, x.ref))]>>]

\* variant: a mutator that sends whatever it is given
Client_mutate_unchecked(h, action, target, x) ==
    IF x.t # "ref" THEN [end |-> "AttributeError", sent |-> <<>>]
    ELSE [end |-> "returned",
          sent |-> <<[key |-> Key(action, target), value |-> Dumps(to_json(h, x.ref))]>>]

(* Client.{action}_{target}(x): [end, sent]; end is "returned" or the      *)
(* exception raised                                                        *)
Client_mutate(h, action, target, x) ==
    IF TypeChecked(action, target) /\ ~IsInstance(h, x, ClassOf(target))
    THEN [end |-> "ValueError", sent |-> <<>>]
    ELSE IF x.t # "ref" THEN [end |-> "AttributeError", sent |-> <<>>]
    ELSE [end |-> "returned",
          sent |-> <<[key |-> Key(action, target), value |-> Dumps(to_json(h, x.ref))]>>]

\* what the mutators are called with: an entity of each class, an encoded form, None
ClientArgs ==
    {Fresh("Area", "", k) : k \in Kinds} \cup {Fresh("Track", "", k) : k \in Kinds}
    \cup {Fresh("Agent", DEFAULT_AGENT_NAME, "plain"), Fresh("Agent", "bot1", "tuned")}
    \cup {AreaDoc("tuned"), JNone}

\* client.{action}_{target}(x) is called
ClientCall(action, target, x) ==
    /\ \E m \in {Materialize(heap, held, x)} :
       \E r \in {Client_mutate(m.h, action, target, m.arg)} :
          /\ sent' = r.sent
          /\ op' = Record("Client." \o action \o "_" \o target, <<>>, AsValue(m.h, m.arg),
                          r.end, JNone)
    /\ UNCHANGED <<svars, lvars, xvars, held, cvars>>

\* the keys other contexts wait on, and the keys and payloads the callback is called with
WaitKeys == {Key("get", "area"), Key("get", "track")}
ReceiveKeys == WaitKeys \cup ForeignKeys
ReceivePayloads == {Dumps(AreaDoc("plain")), Dumps(AreaDoc("tuned")), JStr("")}

\* client.on_received(side_channel, key, value), as the transport or a test calls it
ClientReceive(key, value) ==
    /\ \E r \in {Client_on_received(res_map, cond_owner, key, value)} :
          /\ ClientHandle(key, r)
          /\ op' = Record("Client.on_received", key, value,
                          IF r.ok THEN "returned" ELSE "raised", JNone)
    /\ sent' = <<>>
    /\ UNCHANGED <<svars, lvars, xvars, held, timeout, max_retry_attempts, get_key, try_count, sends,
                   waits, result, net>>

(* Another context runs _get(key).  Its `self._res_cond_map[key]` is not   *)
(* under self._lock, and for a key the defaultdict does not hold it is two *)
(* steps, with the factory's Python code between them: the lookup that     *)
(* misses, and the insertion of the new Condition, which replaces what     *)
(* another context has inserted in between.                                *)
WaiterLookup(c, key) ==
    /\ waiters[c] = NotWaiting
    /\ waiters' = [waiters EXCEPT ![c] =
                      IF key \in DOMAIN cond_made
                      THEN [key |-> key, cond |-> cond_made[key], at |-> "have"]
                      ELSE [key |-> key, cond |-> c, at |-> "making"]]
    /\ sent' = <<>>
    /\ op' = Record("Client._get", key, JStr(c), "lookup", JNone)
    /\ UNCHANGED <<svars, lvars, xvars, held, timeout, max_retry_attempts, pc, get_key, try_count, sends,
                   waits, cond_owner, cond_made, res_map, result, net>>

\* defaultdict.__missing__ stores the Condition the factory returned
WaiterInsert(c) ==
    /\ waiters[c].at = "making"
    /\ cond_made' = [k \in DOMAIN cond_made \cup {waiters[c].key} |->
                        IF k = waiters[c].key THEN c ELSE cond_made[k]]
    /\ cond_owner' = [k \in DOMAIN cond_owner \cup {waiters[c].key} |->
                         IF k = waiters[c].key THEN "free" ELSE cond_owner[k]]
    /\ waiters' = [waiters EXCEPT ![c].at = "have"]
    /\ sent' = <<>>
    /\ op' = Record("Client._get", waiters[c].key, JStr(c), "insert", JNone)
    /\ UNCHANGED <<svars, lvars, xvars, held, timeout, max_retry_attempts, pc, get_key, try_count, sends,
                   waits, res_map, result, net>>

\* the lock of the Condition that context c holds is free
CondFree(c) ==
    (waiters[c].key \in DOMAIN cond_made /\ cond_made[waiters[c].key] = waiters[c].cond) =>
        cond_owner[waiters[c].key] = "free"

\* with condition: send the request; condition.wait(timeout), which releases the condition
WaiterWait(c) ==
    /\ waiters[c].at = "have"
    /\ CondFree(c)
    /\ waiters' = [waiters EXCEPT ![c].at = "waiting"]
    /\ sent' = <<[key |-> waiters[c].key, value |-> JStr("")]>>
    /\ op' = Record("Client._get", waiters[c].key, JStr(c), "waiting", JNone)
    /\ UNCHANGED <<svars, lvars, xvars, held, timeout, max_retry_attempts, pc, get_key, try_count, sends,
                   waits, cond_owner, cond_made, res_map, result, net>>

\* a woken context takes the condition again and returns self._res_map[key]
WaiterReturn(c) ==
    /\ waiters[c].at = "woken"
    /\ CondFree(c)
    /\ waiters' = [waiters EXCEPT ![c] = NotWaiting]
    /\ sent' = <<>>
    /\ op' = Record("Client._get", waiters[c].key, JStr(c), "returned",
                    DictGet(res_map, waiters[c].key))
    /\ UNCHANGED <<svars, lvars, xvars, held, timeout, max_retry_attempts, pc, get_key, try_count, sends,
                   waits, cond_owner, cond_made, res_map, result, net>>

ClientInit ==
    /\ InitServer({TRUE}, {TRUE}, {<<>>})
    /\ InitClient({"none"}, {0})

\* the mutators, called between responses that arrive
SendNext ==
    \/ \E a \in ClientMutators, x \in ClientArgs : ClientCall(a[1], a[2], x)
    \/ \E key \in ReceiveKeys, value \in ReceivePayloads : ClientReceive(key, value)

SendSpec == ClientInit /\ [][SendNext]_vars

\* the callback, with other contexts in _get
WakeNext ==
    \/ \E key \in ReceiveKeys, value \in ReceivePayloads : ClientReceive(key, value)
    \/ \E c \in Waiters, key \in WaitKeys : WaiterLookup(c, key)
    \/ \E c \in Waiters : WaiterInsert(c)
    \/ \E c \in Waiters : WaiterWait(c)
    \/ \E c \in Waiters : WaiterReturn(c)

WakeSpec == ClientInit /\ [][WakeNext]_vars

\* the heap that holds the entity of value v and nothing else, the entity last
HeapOf(v) ==
    IF v.cls = "Agent" THEN <<v.start_location, [v EXCEPT !.start_location = 1]>> ELSE <<v>>

\* the encoded form of the entity of value v
Encoded(v) == to_json(HeapOf(v), Len(HeapOf(v)))

\* o records a call of a mutator of the client
IsClientCall(o) == \E a \in ClientMutators : o.name = "Client." \o a[1] \o "_" \o a[2]

\* the class the mutator that o records is for
ClassFor(o) ==
    CASE o.name = "Client.apply_area" -> "Area"
      [] o.name = "Client.apply_track" -> "Track"
      [] OTHER -> "Agent"

\* the mutator that o records was given an entity of the class it is for
Matching(o) == o.given.t = "val" /\ o.given.v.cls = ClassFor(o)

-----------------------------------------------------------------------------
(* C11: for a message with a well-formed key for which the server has no   *)
(* method {action}_{target}, on_received drops the message: it returns     *)
(* without raising, sends nothing and leaves the server's state as it is.  *)
(* The method lookup of on_received is outside its try blocks, so this is  *)
(* the statement the code does not meet.                                   *)
C11_NoHandlerDropped ==
    [][(op'.name = "on_received" /\ op'.key \in WellFormedKeys
          /\ <<op'.key[2], op'.key[3]>> \notin Handlers) =>
          /\ op'.end # "raised"
          /\ sent' = <<>>
          /\ View' = View]_vars

(* C12: for a message whose key does not start with the reserved prefix,   *)
(* on_received does nothing: the key is not split, no handler runs, area,  *)
(* track and registry are unchanged and nothing is sent.                   *)
C12_ForeignIgnored ==
    [][(op'.name = "on_received" /\ op'.key[1] \notin PrefixedParts) =>
          /\ op'.end = "ignored"
          /\ op'.ret = JNone
          /\ sent' = <<>>
          /\ View' = View
          /\ is_started' = is_started
          /\ observing' = observing]_vars

\* a message on another topic, with an action and a target the server knows, was ignored
C12_Witness ==
    /\ op.name = "on_received"
    /\ op.key = <<"other_topic", "get", "area">>
    /\ op.end = "ignored"
    /\ sent = <<>>

(* C14: Client.apply_agent, spawn_agent and delete_agent called with       *)
(* something that is not an Agent, and Client.apply_track called with      *)
(* something that is not a Track, raise ValueError and send nothing.       *)
C14_WrongEntityRejected ==
    [][(IsClientCall(op') /\ op'.name # "Client.apply_area" /\ ~Matching(op')) =>
          /\ op'.end = "ValueError"
          /\ sent' = <<>>
          /\ UNCHANGED cvars]_vars

\* apply_track was called with an Area and raised
C14_Witness ==
    /\ op.name = "Client.apply_track"
    /\ op.given.t = "val"
    /\ op.given.v.cls = "Area"
    /\ op.end = "ValueError"
    /\ sent = <<>>

\* delete_agent was called with an encoded form instead of an Agent and raised
C14_WitnessDoc ==
    /\ op.name = "Client.delete_agent"
    /\ op.given = AreaDoc("tuned")
    /\ op.end = "ValueError"

(* C15: Client.apply_area called with something that is not an Area (a     *)
(* Track or an Agent, say) raises ValueError and sends nothing, so that no *)
(* apply::area message carries the encoding of another class.  apply_area  *)
(* has no isinstance test, so this is the statement the code does not      *)
(* meet.                                                                   *)
C15_ApplyAreaRejected ==
    [][(op'.name = "Client.apply_area" /\ ~Matching(op')) =>
          /\ op'.end = "ValueError"
          /\ sent' = <<>>]_vars

(* C16: each mutator of the client, called with an entity of its class,    *)
(* sends once, on deepracer_config::{action}::{target}, the entity's       *)
(* encoded form, returns without a wait, and leaves the response map, the  *)
(* conditions and the waiting contexts as they are.                        *)
C16_OneSend ==
    [][\A a \in ClientMutators :
          (op'.name = "Client." \o a[1] \o "_" \o a[2] /\ Matching(op')) =>
             /\ op'.end = "returned"
             /\ sent' = <<[key |-> <<"deepracer_config", a[1], a[2]>>,
                           value |-> Dumps(Encoded(op'.given.v))]>>
             /\ UNCHANGED cvars]_vars

\* spawn_agent sent the encoding of an agent whose every field differs from the default
C16_Witness ==
    /\ op.name = "Client.spawn_agent"
    /\ op.end = "returned"
    /\ op.given.t = "val"
    /\ op.given.v.name = "bot1"
    /\ Len(sent) = 1
    /\ sent[1].key = Key("spawn", "agent")
    /\ sent[1].value.doc = AgentDoc("bot1", "tuned")

(* C17: when Client.on_received returns for a key with the reserved prefix *)
(* and a payload that decodes, the result stored for the key is the        *)
(* decoded payload, every context that was waiting in _get on the key is   *)
(* woken, and no context on another key is woken and no other key's result *)
(* has changed.  A context whose _get made the key's Condition while       *)
(* another made one too can wait on a Condition the map no longer holds,   *)
(* so this is the statement the code does not meet.                        *)
C17_WakeAll ==
    [][(op'.name = "Client.on_received" /\ op'.key[1] \in PrefixedParts /\ Loads(op'.given).ok) =>
          /\ op'.end = "returned"
          /\ DictKeys(res_map') = DictKeys(res_map) \cup {op'.key}
          /\ DictGet(res_map', op'.key) = Loads(op'.given).v
          /\ \A k \in DictKeys(res_map) \ {op'.key} : DictGet(res_map', k) = DictGet(res_map, k)
          /\ \A c \in Waiters :
                /\ (waiters[c].key = op'.key /\ waiters[c].at = "waiting") =>
                      (waiters'[c].key = op'.key /\ waiters'[c].at = "woken")
                /\ waiters[c].key # op'.key => waiters'[c] = waiters[c]]_vars

(* C18: for a key that does not start with the reserved prefix,            *)
(* Client.on_received leaves the response map as it is (the key is not     *)
(* added), creates no condition for the key and wakes no waiting context.  *)
C18_ForeignKept ==
    [][(op'.name = "Client.on_received" /\ op'.key[1] \notin PrefixedParts) =>
          /\ op'.end = "returned"
          /\ res_map' = res_map
          /\ ~DictHas(res_map', op'.key)
          /\ DOMAIN cond_owner' = DOMAIN cond_owner
          /\ op'.key \notin DOMAIN cond_owner'
          /\ waiters' = waiters
          /\ pc' = pc]_vars

\* a message on another topic with a payload that decodes arrived while two contexts waited
C18_Witness ==
    /\ op.name = "Client.on_received"
    /\ op.key = <<"other_topic", "get", "area">>
    /\ op.given = Dumps(AreaDoc("tuned"))
    /\ \A c \in Waiters : waiters[c].at = "waiting"
    /\ res_map # <<>>

(* C19: get_agent(name) does not fail: for a name the registry holds it    *)
(* returns a copy equal to that agent, for a name the registry does not    *)
(* hold (one that delete_agent removed included) it returns None, and the  *)
(* registry, the area and the track are unchanged.                         *)
C19_GetAgent ==
    [][(IsCall(op', "get", "agent") /\ op'.given.t = "str") =>
          /\ op'.end \in {"returned", "handled"}
          /\ op'.ret = IF DictHas(agent_map, op'.given.s)
                       THEN AsValue(heap, Ref(DictGet(agent_map, op'.given.s)))
                       ELSE JNone
          /\ View' = View]_vars

\* get_agent of a name that is not in the registry returned None
C19_Witness ==
    /\ op.name = "get_agent"
    /\ op.given = JStr("bot1")
    /\ ~DictHas(agent_map, "bot1")
    /\ op.end = "returned"
    /\ op.ret = JNone

\* get_agent of a name that is in a registry of two returned that agent
C19_WitnessPresent ==
    /\ op.name = "get_agent"
    /\ op.given = JStr("bot1")
    /\ Len(agent_map) = 2
    /\ op.ret.t = "val"
    /\ op.ret.v.name = "bot1"

(* C20: with timeout None, _get sends its request once, does not retry and *)
(* does not raise TimeoutError, whatever max_retry_attempts is; it leaves  *)
(* its wait only when a response on its key is delivered, which wakes it,  *)
(* and once woken it returns; without such a delivery it stays waiting.    *)
C20_WaitsForever ==
    /\ [](timeout = "none" =>
            /\ sends <= 1
            /\ waits <= 1
            /\ try_count = 0
            /\ pc \notin {"expired", "raised"})
    /\ [][timeout = "none" =>
            /\ (pc = "waiting" /\ pc' # "waiting") =>
                  /\ pc' = "woken"
                  /\ DictHas(res_map', get_key)
                  /\ \E m \in BagToSet(net) :
                        /\ m = Msg("client", get_key, m.value)
                        /\ Loads(m.value).ok
                        /\ DictGet(res_map', get_key) = Loads(m.value).v
                        /\ net' = net (-) SetToBag({m})
            /\ (pc = "waiting" /\ DictHas(res_map', get_key) /\
                    (DictHas(res_map, get_key) =>
                        DictGet(res_map', get_key) # DictGet(res_map, get_key))) =>
                  pc' = "woken"
            /\ (pc = "woken" /\ pc' # "woken") => pc' \in {"returned", "failed"}
            /\ (pc' = "returned" /\ pc # "returned") => pc = "woken"]_vars

\* a get with no timeout and a retry limit was answered and returned after its one send
C20_Witness ==
    /\ timeout = "none"
    /\ max_retry_attempts = MaxRetry
    /\ pc = "returned"
    /\ sends = 1
    /\ waits = 1

\* a get with no timeout whose request was lost is waiting, with nothing in flight
C20_WitnessLost ==
    /\ timeout = "none"
    /\ max_retry_attempts = 0
    /\ pc = "waiting"
    /\ sends = 1
    /\ net = EmptyBag

-----------------------------------------------------------------------------
(* The handoff between _get and on_received: the responses on the key of   *)
(* the get in progress are recorded in `heard` as the callback stores      *)
(* them.                                                                   *)

\* the server and the lock variables the client's steps leave alone
yvars == <<state_lock, dispatch, direct, traffic, map_lock, callback>>

\* the payloads of the responses, and the targets of the gets
HandoffPayloads == {Dumps(AreaDoc("plain")), Dumps(AreaDoc("tuned"))}
HandoffTargets == {"area"}
HandoffKeys == {Key("get", "area"), Key("get", "track")}

\* a response that answers attempt att was stored; early: before the wait began
Hear(hd, value, att, early) ==
    [n |-> IF hd.n = 0 THEN 1 ELSE 2,
     first |-> IF hd.n = 0 THEN value ELSE hd.first,
     last |-> value,
     att |-> att,
     early |-> hd.early \/ early,
     stale |-> hd.stale]

\* between a send and the wait that follows it, or between two attempts
InGap == pc \in {"wait", "expired", "enter"} /\ sends >= 1

\* Client.get_area is called: _get starts, and nothing was heard yet
HandoffStart(target) ==
    /\ GetIdle
    /\ pc' = "enter"
    /\ get_key' = Key("get", target)
    /\ try_count' = 0
    /\ sends' = 0
    /\ waits' = 0
    /\ result' = JNone
    /\ cond_owner' = CondOf(cond_owner, get_key')
    /\ cond_made' = MadeFor(cond_made, DOMAIN cond_owner', "getter")
    /\ heard' = [NotHeard EXCEPT !.stale = IF DictHas(res_map, get_key')
                                            THEN DictGet(res_map, get_key') ELSE JNone]
    /\ op' = Record("Client.get", get_key', JNone, "called", JNone)
    /\ UNCHANGED <<svars, lvars, yvars, waiters, held, sent, timeout, max_retry_attempts, res_map, net>>

(* self._side_channel.send(key, "") over a transport that delivers on the  *)
(* caller's context: the server's reply reaches on_received before send    *)
(* returns.  The caller holds the key's Condition, whose lock is           *)
(* re-entrant, so the callback stores the reply and notifies, and nobody   *)
(* waits yet.                                                              *)
GetSendInline(value) ==
    /\ pc = "send"
    /\ \E r \in {Client_on_received(res_map, cond_owner, get_key, value)} :
          /\ r.notified
          /\ res_map' = r.res_map
          /\ waiters' = NotifyAll(waiters, get_key, cond_made[get_key])
          /\ heard' = Hear(heard, value, sends + 1, TRUE)
          /\ op' = Record("Client.on_received", get_key, value, "returned", JNone)
    /\ sends' = sends + 1
    /\ pc' = "wait"
    /\ UNCHANGED <<svars, lvars, yvars, held, sent, timeout, max_retry_attempts, get_key, try_count, waits,
                   cond_owner, cond_made, result, net>>

(* the transport calls client.on_received(side_channel, key, value) on its *)
(* own context: the reply to the request of attempt att of the get in      *)
(* progress, or (att = 0) a message on a key no request is out for         *)
HandoffReceive(key, value, att) ==
    /\ IF key = get_key /\ ~GetIdle /\ sends >= 1 THEN att \in 1..sends ELSE att = 0
    /\ \E r \in {Client_on_received(res_map, cond_owner, key, value)} :
          /\ ClientHandle(key, r)
          /\ op' = Record("Client.on_received", key, value,
                          IF r.ok THEN "returned" ELSE "raised", JNone)
          /\ heard' = IF r.notified /\ key = get_key /\ ~GetIdle /\ sends >= 1
                      THEN Hear(heard, value, att, InGap)
                      ELSE heard
    /\ UNCHANGED <<svars, lvars, yvars, held, sent, timeout, max_retry_attempts, get_key, try_count, sends,
                   waits, result, net>>

HandoffInit ==
    /\ InitServer({TRUE}, {TRUE}, {<<>>})
    /\ InitClient({"finite"}, 0..MaxRetry)

HandoffNext ==
    \/ \E target \in HandoffTargets : HandoffStart(target)
    \/ GetEnter
    \/ GetSend
    \/ \E value \in HandoffPayloads : GetSendInline(value)
    \/ GetWait
    \/ GetTimeout
    \/ GetReturn
    \/ GetRetry
    \/ \E m \in BagToSet(net) : Lose(m)
    \/ \E key \in HandoffKeys, value \in HandoffPayloads, att \in 0..(MaxRetry + 1) :
          HandoffReceive(key, value, att)

HandoffSpec == HandoffInit /\ [][HandoffNext]_vars

(* C21: a response delivered after _get sent its request and before it     *)
(* began to wait (on the caller's context during send, or between a        *)
(* timed-out attempt and the next one) is still observed by _get, which    *)
(* returns it and does not raise TimeoutError.  wait() is entered without  *)
(* a look at the response map, so this is the statement the code does not  *)
(* meet.                                                                   *)
C21_HandoffObserved == pc = "raised" => ~heard.early

(* C22: no cross-talk between attempts: a wait is ended only by the        *)
(* response to the request its own attempt sent; the response to an        *)
(* earlier attempt that timed out, delivered during a later wait, does not *)
(* end that wait.  Responses are stored and notified by key alone, so this *)
(* is the statement the code does not meet.                                *)
C22_OwnAttempt ==
    [][(pc = "waiting" /\ pc' = "woken") => heard'.att = sends]_vars

\* what the get in progress returns for the payload of a response
Answer(value) == Decoded(get_key[3], Loads(value).v)

(* C23: a response that on_received is handed on a prefixed key while no   *)
(* get is in progress is stored without error, and a later get on that key *)
(* does not return it: a get returns only after a response was delivered   *)
(* after its request was sent, and returns what was delivered then, also   *)
(* when the response map held a result for the key when the get began.     *)
C23_NeverStale ==
    [][/\ (GetIdle /\ pc' = pc /\ net' = net /\ StartsWithPrefix(op'.key)) =>
             /\ op'.name = "Client.on_received"
             /\ op'.end = "returned"
             /\ DictHas(res_map', op'.key)
             /\ DictGet(res_map', op'.key) = Loads(op'.given).v
       /\ (pc = "woken" /\ pc' \in {"returned", "failed"}) =>
             /\ heard.n >= 1
             /\ result' = Answer(heard.last)]_vars

(* a get returned a value other than the one the response map held when it *)
(* began                                                                   *)
C23_Witness ==
    /\ pc = "returned"
    /\ heard.stale # JNone
    /\ result # Decoded(get_key[3], heard.stale)

\* a response was stored while no get was in progress
C23_WitnessIdle ==
    /\ pc = "idle"
    /\ op.name = "Client.on_received"
    /\ DictHas(res_map, Key("get", "area"))

(* C24: when two or more responses on the key are delivered after the get  *)
(* sent its request and before the woken getter takes the key's slot       *)
(* again, the get returns the payload of the last of them, not of an       *)
(* earlier one.                                                            *)
C24_LastWins ==
    [][(pc = "woken" /\ pc' \in {"returned", "failed"} /\ heard.n = 2) =>
           /\ DictGet(res_map, get_key) = Loads(heard.last).v
           /\ heard.first # heard.last => result' # Answer(heard.first)]_vars

\* a get returned after two different responses were delivered
C24_Witness ==
    /\ pc = "returned"
    /\ heard.n = 2
    /\ heard.first # heard.last
    /\ result = Answer(heard.last)

-----------------------------------------------------------------------------
(* The server's calls as the steps two contexts take: the transport's      *)
(* context runs on_received, which holds self._lock from the parse of the  *)
(* key to the end of the reply; the caller's context runs the accessors    *)
(* and mutators, which take no lock.                                       *)

\* the client's variables and the locks the server's steps leave alone
zvars == <<lvars, heard, traffic, map_lock, callback>>

RaceNames == {"bot1", DEFAULT_AGENT_NAME}
RaceDocs == {AgentDoc(n, "plain") : n \in RaceNames}
RaceKeys == {Key("delete", "agent"), Key("spawn", "agent"), Key("get", "agents"), Key("get", "area")}
RacePayloads(key) == IF key[2] = "get" THEN {JStr("")} ELSE RaceDocs

\* a step that leaves the server's state alone and sends nothing
Keep ==
    /\ sent' = <<>>
    /\ UNCHANGED <<svars, held, op>>

\* on_received: the key has the prefix, `with self._lock:` is entered
DispatchEnter(key, value) ==
    /\ dispatch.at = "idle"
    /\ StartsWithPrefix(key)
    /\ state_lock = "free"
    /\ state_lock' = "transport"
    /\ dispatch' = [at |-> "locked", key |-> key, value |-> value, out |-> <<>>]
    /\ Keep
    /\ UNCHANGED <<direct, zvars, cvars>>

(* on_received: the key is parsed and the handler runs.  delete_agent is   *)
(* two steps, the test of the registry's size and the pop; the other       *)
(* handlers are one step each.  A get leaves a reply to send.              *)
DispatchHandler ==
    /\ dispatch.at = "locked"
    /\ IF <<dispatch.key[2], dispatch.key[3]>> = <<"delete", "agent">>
       THEN /\ dispatch' = [dispatch EXCEPT !.at = IF Len(agent_map) > 1 THEN "pop" ELSE "exit"]
            /\ Keep
       ELSE \E r \in {on_received(Server, dispatch.key, dispatch.value)} :
               /\ dispatch' = [dispatch EXCEPT !.at = IF r.sent # <<>> THEN "reply" ELSE "exit",
                                               !.out = r.sent]
               /\ Store(r.S, held, <<>>, op)
    /\ UNCHANGED <<state_lock, direct, zvars, cvars>>

\* on_received: the handler is delete_agent and the test has passed
DispatchPop ==
    /\ dispatch.at = "pop"
    /\ \E r \in {delete_agent_pop(Server, dispatch.value)} :
          Store(r.S, held, <<>>, op)
    /\ dispatch' = [dispatch EXCEPT !.at = "exit"]
    /\ UNCHANGED <<state_lock, direct, zvars, cvars>>

\* on_received: side_channel.send(key, json.dumps(...)) of a get
DispatchSend ==
    /\ dispatch.at = "reply"
    /\ sent' = dispatch.out
    /\ dispatch' = [dispatch EXCEPT !.at = "exit", !.out = <<>>]
    /\ UNCHANGED <<svars, held, op, state_lock, direct, zvars, cvars>>

\* on_received: the with block is left
DispatchExit ==
    /\ dispatch.at = "exit"
    /\ state_lock' = "free"
    /\ dispatch' = NoCall
    /\ Keep
    /\ UNCHANGED <<direct, zvars, cvars>>

\* server.delete_agent(x) on the caller's context: if len(self._agent_map) > 1
DirectDeleteTest(x) ==
    /\ direct.at = "idle"
    /\ direct' = IF Len(agent_map) > 1
                 THEN [at |-> "pop", key |-> <<>>, value |-> x, out |-> <<>>]
                 ELSE NoCall
    /\ Keep
    /\ UNCHANGED <<state_lock, dispatch, zvars, cvars>>

\* server.delete_agent(x) on the caller's context: the pop
DirectDeletePop ==
    /\ direct.at = "pop"
    /\ \E r \in {delete_agent_pop(Server, direct.value)} :
          Store(r.S, held, <<>>, op)
    /\ direct' = NoCall
    /\ UNCHANGED <<state_lock, dispatch, zvars, cvars>>

\* server.spawn_agent(x) / server.get_agents() on the caller's context
DirectOther(action, target, x) ==
    /\ direct.at = "idle"
    /\ \E r \in {Invoke(Server, action, target, x)} :
          Store(r.S, held, <<>>,
                Record(action \o "_" \o target, <<>>, JNone,
                       IF r.ok THEN "returned" ELSE "raised", AsValue(r.S.h, r.ret)))
    /\ UNCHANGED <<state_lock, dispatch, direct, zvars, cvars>>

RaceInit ==
    /\ InitServer({FALSE}, {FALSE},
                  {<<[name |-> "bot1", kind |-> "plain"],
                     [name |-> DEFAULT_AGENT_NAME, kind |-> "plain"]>>})
    /\ InitClient({"finite"}, {0})

RaceNext ==
    \/ \E key \in RaceKeys : \E value \in RacePayloads(key) : DispatchEnter(key, value)
    \/ DispatchHandler
    \/ DispatchPop
    \/ DispatchSend
    \/ DispatchExit
    \/ \E x \in RaceDocs : DirectDeleteTest(x)
    \/ DirectDeletePop
    \/ \E x \in RaceDocs : DirectOther("spawn", "agent", x)
    \/ DirectOther("get", "agents", JNone)

RaceSpec == RaceInit /\ [][RaceNext]_vars

(* C25: the reads and writes of the server's state exclude each other: a   *)
(* direct call of a mutator does not interleave with a handler that        *)
(* on_received runs on another context, so on a registry of two agents a   *)
(* direct delete_agent of one and a dispatched delete::agent of the other  *)
(* do not leave the registry empty.  The accessors and mutators take no    *)
(* lock, so this is the statement the code does not meet.                  *)
C25_StateExclusive == agent_map # <<>>

(* C26: the server does no transport I/O while it holds its state lock:    *)
(* the send of a get's reply happens after self._lock was released.  The   *)
(* send is inside the with block, so this is the statement the code does   *)
(* not meet.                                                               *)
C26_SendUnlocked ==
    [][(dispatch.at = "reply" /\ dispatch'.at # "reply" /\ sent' # <<>>) =>
          state_lock = "free"]_vars

-----------------------------------------------------------------------------
(* A broadcast transport: every registered observer, the sender's own side *)
(* included, is handed every message that is sent.  `traffic` counts, for  *)
(* each get key, the requests the client sent and the replies the server   *)
(* sent.                                                                   *)

MaxRequests == 2
MaxReplies == 3
MaxOnAir == 4

\* the observers registered with the transport
Observers == {"client"} \cup (IF observing THEN {"server"} ELSE {})

\* send(key, value): one copy of the message for every observer
RECURSIVE Broadcast(_, _, _)
Broadcast(bag, ms, tos) ==
    IF ms = <<>> THEN bag
    ELSE Broadcast(bag (+) SetToBag({Msg(to, Head(ms).key, Head(ms).value) : to \in tos}),
                   Tail(ms), tos)

\* the client's variables a broadcast step leaves alone
bvars == <<timeout, max_retry_attempts, get_key, try_count, sends, waits, result>>

\* Client._get: self._side_channel.send(key, "")
BroadcastRequest(key) ==
    /\ traffic[key].requests < MaxRequests
    /\ BagCardinality(net) + 2 <= MaxOnAir
    /\ net' = Broadcast(net, <<[key |-> key, value |-> JStr("")]>>, Observers)
    /\ traffic' = [traffic EXCEPT ![key].requests = @ + 1]
    /\ Keep
    /\ UNCHANGED <<lvars, heard, state_lock, dispatch, direct, map_lock, callback>>
    /\ UNCHANGED <<bvars, pc, cond_owner, cond_made, waiters, res_map>>

\* the transport hands a message to the server, whose replies it broadcasts
BroadcastToServer(m) ==
    /\ BagIn(m, net)
    /\ m.to = "server"
    /\ \E r \in {on_received(Server, m.key, m.value)} :
          /\ r.sent # <<>> => /\ traffic[m.key].replies + Len(r.sent) <= MaxReplies
                              /\ BagCardinality(net) - 1 + 2 * Len(r.sent) <= MaxOnAir
          /\ net' = Broadcast(net (-) SetToBag({m}), r.sent, Observers)
          /\ traffic' = IF r.sent # <<>>
                        THEN [traffic EXCEPT ![m.key].replies = @ + Len(r.sent)]
                        ELSE traffic
          /\ Store(r.S, held, r.sent, op)
    /\ UNCHANGED <<lvars, heard, state_lock, dispatch, direct, map_lock, callback>>
    /\ UNCHANGED <<bvars, pc, cond_owner, cond_made, waiters, res_map>>

\* the transport hands a message to the client
BroadcastToClient(m) ==
    /\ BagIn(m, net)
    /\ m.to = "client"
    /\ \E r \in {Client_on_received(res_map, cond_owner, m.key, m.value)} :
          /\ ClientHandle(m.key, r)
          /\ Keep
    /\ net' = net (-) SetToBag({m})
    /\ UNCHANGED <<lvars, xvars, bvars>>

BroadcastInit ==
    /\ InitServer({FALSE, TRUE}, {FALSE}, {<<>>})
    /\ InitClient({"finite"}, {0})

BroadcastNext ==
    \/ \E key \in GetKeys : BroadcastRequest(key)
    \/ \E m \in BagToSet(net) : BroadcastToServer(m)
    \/ \E m \in BagToSet(net) : BroadcastToClient(m)
    \/ ServerStart

BroadcastSpec == BroadcastInit /\ [][BroadcastNext]_vars

(* C29: under a broadcast transport the server sends, on a get key, no     *)
(* more replies than get requests were sent on that key: it does not take  *)
(* its own reply for a request.  on_received does not look at the payload  *)
(* of a get, so this is the statement the code does not meet.              *)
C29_RepliesBounded ==
    \A key \in GetKeys : traffic[key].replies <= traffic[key].requests

-----------------------------------------------------------------------------
(* The locks, with a transport whose send returns without running an       *)
(* observer and which delivers on contexts of its own: callers in _get,    *)
(* Client.on_received on the transport's contexts, the server's dispatch,  *)
(* a direct call of the server, and start() and stop().                    *)

LockKeys == {Key("get", "area")}
LockPayloads == {Dumps(AreaDoc("tuned"))}

\* Client.on_received on context t: the key has the prefix, `with self._lock:` is entered
CallbackEnter(t, key, value) ==
    /\ callback[t].at = "idle"
    /\ StartsWithPrefix(key)
    /\ map_lock = "free"
    /\ map_lock' = t
    /\ callback' = [callback EXCEPT ![t] = [at |-> "mapped", key |-> key, value |-> value,
                                            out |-> <<>>]]
    /\ UNCHANGED <<svars, lvars, held, sent, op, cvars, heard, state_lock, dispatch, direct, traffic>>

(* Client.on_received on context t: the key's Condition is looked up and   *)
(* entered, the value is stored, the waiters are notified, and the two     *)
(* with blocks are left                                                    *)
CallbackStore(t) ==
    /\ callback[t].at = "mapped"
    /\ \E r \in {Client_on_received(res_map, cond_owner, callback[t].key, callback[t].value)} :
          ClientHandle(callback[t].key, r)
    /\ map_lock' = "free"
    /\ callback' = [callback EXCEPT ![t] = NoCall]
    /\ UNCHANGED <<svars, lvars, held, sent, op, heard, state_lock, dispatch, direct, traffic>>
    /\ UNCHANGED <<timeout, max_retry_attempts, get_key, try_count, sends, waits, result, net>>

LockInit ==
    /\ InitServer({FALSE}, {FALSE}, {<<>>})
    /\ InitClient({"finite"}, {0})

\* the steps of the caller of get_area once it is in _get
GetterStep == GetEnter \/ GetSend \/ GetWait \/ GetTimeout \/ GetReturn \/ GetRetry

\* the steps of on_received of the server once it holds self._lock
DispatchStep == DispatchHandler \/ DispatchSend \/ DispatchExit

\* the steps of start() and stop() on context c once it holds self._server_lock
LifeStep(c) == LifeTest(c) \/ LifeTransport(c) \/ LifeFlag(c) \/ LifeRelease(c)

LockNext ==
    \/ \E target \in {"area"} : GetStart(target)
    \/ GetterStep
    \/ \E key \in LockKeys : WaiterLookup("w1", key)
    \/ WaiterInsert("w1")
    \/ WaiterWait("w1")
    \/ WaiterReturn("w1")
    \/ \E t \in Deliverers, key \in LockKeys, value \in LockPayloads : CallbackEnter(t, key, value)
    \/ \E t \in Deliverers : CallbackStore(t)
    \/ DispatchEnter(Key("get", "area"), JStr(""))
    \/ DispatchStep
    \/ DirectOther("get", "area", JNone)
    \/ LifeAcquire("c1", "stop")
    \/ LifeAcquire("c2", "start")
    \/ \E c \in Contexts : LifeStep(c)

LockSpec == LockInit /\ [][LockNext]_vars

\* the contexts that hold a lock
Owners ==
    ({map_lock, state_lock, server_lock} \cup {cond_owner[k] : k \in DOMAIN cond_owner}) \ {"free"}

(* context o, which holds a lock, can take its next step; the handler the  *)
(* server's dispatch runs is a call that asks for no lock                  *)
Running(o) ==
    \/ o = "getter" /\ ENABLED (GetSend \/ GetWait)
    \/ o = "transport" /\ (dispatch.at = "locked" \/ ENABLED (DispatchSend \/ DispatchExit))
    \/ \E t \in Deliverers : o = t /\ ENABLED CallbackStore(t)
    \/ \E c \in Contexts : o = c /\ ENABLED LifeStep(c)

\* the contexts that hold the lock context o is asking for
WaitsOn(o) ==
    IF o \in Deliverers /\ callback[o].at = "mapped" /\ callback[o].key \in DOMAIN cond_owner
    THEN {cond_owner[callback[o].key]} \ {"free"}
    ELSE {}

(* C30: with a transport whose send runs no observer, no context waits     *)
(* forever for a lock: whoever holds a lock can take its next step, or is  *)
(* asking for a lock whose holder can; on_received of the client takes the *)
(* mapping lock and then the key's Condition, _get holds only the key's    *)
(* Condition and not while it waits, the server's dispatch holds only the  *)
(* state lock, and start() and stop() hold only the server lock.           *)
C30_NoDeadlock ==
    /\ \A o \in Owners : Running(o) \/ \E o2 \in WaitsOn(o) : Running(o2)
    /\ map_lock # "free" => callback[map_lock].at = "mapped"
    /\ state_lock # "free" => dispatch.at # "idle"
    /\ \A k \in DOMAIN cond_owner : cond_owner[k] = "getter" => (get_key = k /\ pc \in {"send", "wait"})
    /\ \A c \in Contexts : server_lock = c => life[c].at # "idle"

(* on_received holds the mapping lock and asks for the Condition that a    *)
(* caller in _get holds, while the server's dispatch holds the state lock  *)
(* and a start() or stop() holds the server lock                           *)
C30_Witness ==
    /\ map_lock \in Deliverers
    /\ callback[map_lock].key \in DOMAIN cond_owner
    /\ cond_owner[callback[map_lock].key] = "getter"
    /\ state_lock = "transport"
    /\ server_lock \in Contexts

(* C27: each key has one wait primitive: a caller of _get and the callback, *)
(* or two callers of _get, synchronize on the same Condition for a key,    *)
(* also when they touch the key for the first time at the same moment, so  *)
(* no caller waits on a Condition that on_received does not notify.  The   *)
(* lookup in _get is not under self._lock, so this is the statement the    *)
(* code does not meet.                                                     *)
C27_OneCondition ==
    \A c \in Waiters :
        waiters[c].at \in {"have", "waiting"} =>
            /\ waiters[c].key \in DOMAIN cond_made
            /\ waiters[c].cond = cond_made[waiters[c].key]

(* C28: the server's state is never aliased with an entity the caller      *)
(* still holds: after apply_area, apply_track, apply_agent or spawn_agent  *)
(* was given a live entity, a change the caller makes to that entity does  *)
(* not change what the accessors and the get replies return.  The mutators *)
(* store the object they are given, so this is the statement the code does *)
(* not meet.                                                               *)
C28_GivenNotAliased ==
    [][(op'.name = "setattr" /\ op'.given = JStr("given") /\ op'.end = "returned") =>
          View' = View]_vars
====
